---- MODULE Spec2Model ----
(***************************************************************************)
(* A model of the scoring-and-optimization core of jobassist's             *)
(* python-service: the job-posting validator and analyzer (job_analyzer.py),*)
(* the basic and the enhanced similarity scoring paths (job_analyzer.py,   *)
(* indices/similarity_analyzer.py) and the agentic optimizer's bounded     *)
(* improve-and-verify loop (agentic_optimizer.py).                         *)
(*                                                                         *)
(* Scores are kept on an integer grid of Unit steps per percentage point,  *)
(* so that the code's thresholds (-1 point, -2 points, the strategy's      *)
(* expected improvement) fall between grid points as well as on them.      *)
(***************************************************************************)
EXTENDS Integers, Sequences, FiniteSets, TLC

(***************************************************************************)
(* Bounds of the model.                                                    *)
(***************************************************************************)
\* grid steps per percentage point
Unit == 2
\* scores range over 0..MaxScore grid steps
MaxScore == 3
\* max_iterations given to the constructor ranges over 0..MaxIter
MaxIter == 2
\* a reused AgenticResumeOptimizer instance serves a further call while its
\* memory (attempt_history, failed_strategies) holds fewer entries than this
MaxMemory == 2
\* characters a job text may have beyond the minimum length
ExtraLen == 20
\* whitespace characters inside a job text
MaxSpaces == 1

(***************************************************************************)
(* Program constants.                                                      *)
(***************************************************************************)
\* job_analyzer.py:41   len(text.strip()) < 100
MinJobLength == 100
\* job_analyzer.py:69   job_indicator_count < 1
MinJobIndicators == 1
\* job_analyzer.py:91   resume_indicator_count >= 6
ResumeIndicatorLimit == 6
\* job_analyzer.py:122  exclude_count >= 3
ExcludeLimit == 3
\* agentic_optimizer.py:379  len(improved_resume) < 100
MinResumeLength == 100
\* agentic_optimizer.py:258  plan.get('expected_improvement', 5)
DefaultExpected == 5
\* agentic_optimizer.py:268, 275, 282  the fallback plans' expected_improvement
FallbackExpectedFirst == 8
FallbackExpectedSummary == 5
FallbackExpectedSkills == 6

Points(n) == n * Unit

Min(a, b) == IF a <= b THEN a ELSE b

VARIABLES
    \* ---- AgenticResumeOptimizer instance (agentic_optimizer.py:21-32)
    max_iterations, target_score,
    attempt_history, successful_strategies, failed_strategies,
    \* ---- one optimize_resume call: its position, arguments and locals
    pc, resume_text, job_text, original_score,
    current_resume, current_score, iteration, strategy, improved_resume,
    result,
    \* ---- collaborator calls made by the current optimize_resume call
    llm_calls, score_calls,
    \* ---- JobAnalyzer.analyze_job_description called on its own
    job_input, job_result,
    \* ---- similarity scoring calls
    sim_input, sim_result,
    \* ---- SimilarityCalculator._deduplicate_skills called on a skill list
    skills, dedup_result,
    \* ---- one SimilarityCalculator instance scoring pair after pair: what
    \* its vectorizer was last fitted on, and the scores it has returned
    vocabulary, score_log,
    \* ---- a scoring helper called on its own: its arguments and what it
    \* returned
    call_input, call_result

instance_vars == <<max_iterations, target_score>>
memory_vars == <<attempt_history, successful_strategies, failed_strategies>>
run_vars == <<pc, resume_text, job_text, original_score, current_resume,
              current_score, iteration, strategy, improved_resume, result,
              llm_calls, score_calls>>
job_vars == <<job_input, job_result>>
sim_vars == <<sim_input, sim_result>>
skill_vars == <<skills, dedup_result>>
calc_vars == <<vocabulary, score_log>>
call_vars == <<call_input, call_result>>
vars == <<instance_vars, memory_vars, run_vars, job_vars, sim_vars,
          skill_vars, calc_vars, call_vars>>

\* Python's None where a string is expected
None == "None"

\* a JSON value where a number is expected: a number, a string, or no value
\* at all (the object does not hold the key)
Number(n) == [json |-> "number", value |-> n]
NotANumber == [json |-> "string", value |-> 0]
AbsentValue == [json |-> "absent", value |-> 0]
IsNumber(v) == v.json = "number"

(***************************************************************************)
(* Job texts.  A text is described by what validate_is_job_description     *)
(* measures of it: its stripped length, how many phrases of each indicator *)
(* list it contains, its digit count and its count of characters other     *)
(* than blanks and newlines.                                               *)
(***************************************************************************)
JobLengths == {0, MinJobLength - 1, MinJobLength, MinJobLength + ExtraLen}

\* a text of stripped length len with `spaces` inner blanks, whose digits are
\* none, half, or one more than half of its other characters
MkJobText(len, spaces, half, ind, rind, exc, tr) ==
    LET chars == IF len >= spaces THEN len - spaces ELSE 0 IN
    [len |-> len, chars |-> chars,
     digits |-> CASE half = 0 -> 0
                  [] half = 1 -> chars \div 2
                  [] OTHER -> Min(chars, (chars \div 2) + 1),
     indicators |-> ind, resume_indicators |-> rind,
     excludes |-> exc, transcript |-> tr]

JobTexts ==
    { t \in { MkJobText(len, spaces, half, ind, rind, exc, tr) :
                len \in JobLengths, spaces \in 0..MaxSpaces, half \in 0..2,
                ind \in 0..2,
                rind \in {0, ResumeIndicatorLimit - 1, ResumeIndicatorLimit},
                exc \in {0, ExcludeLimit - 1}, tr \in BOOLEAN } :
        \* an empty text contains no phrase; a phrase is made of letters
        /\ (t.len = 0) =>
              /\ t.indicators = 0 /\ t.resume_indicators = 0
              /\ t.excludes = 0 /\ ~t.transcript
        /\ (t.indicators + t.resume_indicators + t.excludes > 0 \/ t.transcript)
              => t.digits < t.chars }

\* validate_is_job_description with the numeric check at "half or more"
validate_half_digits(text) ==
    IF text.len = 0 \/ text.len < MinJobLength
    THEN [is_valid |-> FALSE, error |-> "too_short"]
    ELSE IF text.indicators < MinJobIndicators
    THEN [is_valid |-> FALSE, error |-> "not_a_job_description"]
    ELSE IF text.resume_indicators >= ResumeIndicatorLimit
    THEN [is_valid |-> FALSE, error |-> "is_a_resume"]
    ELSE IF text.excludes + (IF text.transcript THEN 1 ELSE 0) >= ExcludeLimit
    THEN [is_valid |-> FALSE, error |-> "not_a_job_description"]
    ELSE IF text.chars > 0 /\ 2 * text.digits >= text.chars
    THEN [is_valid |-> FALSE, error |-> "too_many_numbers"]
    ELSE [is_valid |-> TRUE, error |-> None]

\* validate_is_job_description: the first failing check decides the error
validate_is_job_description(text) ==
    IF text.len = 0 \/ text.len < MinJobLength
    THEN [is_valid |-> FALSE, error |-> "too_short"]
    ELSE IF text.indicators < MinJobIndicators
    THEN [is_valid |-> FALSE, error |-> "not_a_job_description"]
    ELSE IF text.resume_indicators >= ResumeIndicatorLimit
    THEN [is_valid |-> FALSE, error |-> "is_a_resume"]
    ELSE IF text.excludes + (IF text.transcript THEN 1 ELSE 0) >= ExcludeLimit
    THEN [is_valid |-> FALSE, error |-> "not_a_job_description"]
    ELSE IF text.chars > 0 /\ 2 * text.digits > text.chars
    THEN [is_valid |-> FALSE, error |-> "too_many_numbers"]
    ELSE [is_valid |-> TRUE, error |-> None]

\* no value at all: what a call that raised returns
NoProfile == [raised |-> TRUE]

\* analyze_job_description, lines 775-796: the analysis, each field named by
\* the extractor that fills it, or the error raised
AnalyzeJob(text) ==
    LET validation_result == validate_is_job_description(text) IN
    IF ~validation_result.is_valid
    THEN [raised |-> TRUE,
          error |-> validation_result.error,
          analysis |-> NoProfile]
    ELSE [raised |-> FALSE,
          error |-> None,
          analysis |-> [required_skills |-> "extract_required_skills",
                        experience_level |-> "extract_experience_level",
                        job_title |-> "extract_job_title",
                        company |-> "extract_company_name",
                        key_responsibilities |-> "extract_responsibilities",
                        qualifications |-> "extract_qualifications",
                        description |-> "job_text[:500]"]]

(***************************************************************************)
(* Resume texts.  A text is told from others by the overall score the      *)
(* similarity calculator gives it against the job text and by a variant    *)
(* tag: texts of equal score need not be equal.                            *)
(***************************************************************************)
Scores == 0..MaxScore
Variants == {"submitted", "rewritten"}
Texts == [score : Scores, variant : Variants]
\* the resumes a caller submits, and the texts the collaborator writes
SubmittedTexts == {t \in Texts : t.variant = "submitted"}
RewrittenTexts == {t \in Texts : t.variant = "rewritten"}
\* no text (a local not yet set, or None returned in place of a text)
NoText == [score |-> 0, variant |-> "none"]

\* calculate_similarity(text, job_text).get('overall_score', 0)
ScoreOf(text) == text.score

(***************************************************************************)
(* The text-generation collaborator, ai_service.llm.complete(prompt).      *)
(***************************************************************************)
StrategyNames == {"keyword_optimization", "professional_summary", "skills_emphasis",
                  "ats_formatting", "experience_expansion"}

\* a key the JSON object does not hold
Absent == "absent"

\* a plan the reasoning call may answer: its strategy_name is a listed
\* strategy, a name that is no strategy, or JSON null; its expected_improvement
\* a number or a string; either key may be missing
Plan(n, e) == [kind |-> "plan", strategy_name |-> n, expected_improvement |-> e]

Plans == {Plan(Absent, AbsentValue),
          Plan("ats_formatting", Number(Points(1))),
          Plan("unlisted_strategy", Number(Points(1))),
          Plan(None, NotANumber)}

\* what the reasoning call can come back with: an exception (also when
\* ai_service is None), text json.loads rejects, JSON that is no object, a plan
FailedReasonResponses ==
    {[kind |-> k, strategy_name |-> Absent, expected_improvement |-> AbsentValue] :
        k \in {"raises", "unparseable", "not_an_object"}}

ReasonResponses == FailedReasonResponses \cup Plans

\* what the action call can come back with: an exception, or a text of some
\* length after stripping
ActResponses ==
    {[kind |-> "raises", length |-> 0, text |-> NoText]}
    \cup {[kind |-> "text", length |-> l, text |-> t] :
            l \in {0, MinResumeLength - 1, MinResumeLength}, t \in RewrittenTexts}

IsString(v) == v # None

\* ', '.join(items): raises TypeError on an item that is no string
JoinRaises(items) == \E i \in 1..Len(items) : ~IsString(items[i])

(***************************************************************************)
(* AgenticResumeOptimizer                                                  *)
(***************************************************************************)
\* the prompt of _reason_and_plan joins the strategies tried, successful and
\* failed before the try block is entered (lines 214-226)
ReasoningPromptRaises ==
    \/ JoinRaises([i \in 1..Len(attempt_history) |-> attempt_history[i].strategy])
    \/ JoinRaises(successful_strategies)
    \/ JoinRaises(failed_strategies)

\* the fallback of lines 264-284 with its two later choices exchanged
FallbackStrategySwapped(iter, successful) ==
    IF iter = 1
    THEN [name |-> "keyword_optimization",
          expected_improvement |-> Number(Points(FallbackExpectedFirst))]
    ELSE IF \E i \in 1..Len(successful) : successful[i] = "keyword_optimization"
    THEN [name |-> "skills_emphasis",
          expected_improvement |-> Number(Points(FallbackExpectedSkills))]
    ELSE [name |-> "professional_summary",
          expected_improvement |-> Number(Points(FallbackExpectedSummary))]

\* _reason_and_plan, lines 251-284: the plan's fields with their defaults, or
\* the local fallback when the call or the parse raised
FallbackStrategy(iter, successful) ==
    IF iter = 1
    THEN [name |-> "keyword_optimization",
          expected_improvement |-> Number(Points(FallbackExpectedFirst))]
    ELSE IF \E i \in 1..Len(successful) : successful[i] = "keyword_optimization"
    THEN [name |-> "professional_summary",
          expected_improvement |-> Number(Points(FallbackExpectedSummary))]
    ELSE [name |-> "skills_emphasis",
          expected_improvement |-> Number(Points(FallbackExpectedSkills))]

reason_and_plan(response, iter, successful) ==
    IF response.kind = "plan"
    THEN [name |-> IF response.strategy_name = Absent
                   THEN "keyword_optimization" ELSE response.strategy_name,
          expected_improvement |->
                   IF response.expected_improvement = AbsentValue
                   THEN Number(Points(DefaultExpected))
                   ELSE response.expected_improvement]
    ELSE FallbackStrategy(iter, successful)

\* _apply_strategy, lines 296-373: the instruction template the name selects
ActionTemplate(strategy_name) ==
    IF strategy_name = "keyword_optimization" THEN "keyword_optimization"
    ELSE IF strategy_name = "professional_summary" THEN "professional_summary"
    ELSE IF strategy_name = "skills_emphasis" THEN "skills_emphasis"
    ELSE IF strategy_name = "ats_formatting" THEN "ats_formatting"
    ELSE "experience_expansion"

\* _apply_strategy without the length check of line 379
apply_strategy_unchecked(response) ==
    IF response.kind = "raises" THEN NoText ELSE response.text

\* _apply_strategy, lines 375-386: the rewritten text, or None
apply_strategy(response) ==
    IF response.kind = "raises" THEN NoText
    ELSE IF response.length < MinResumeLength THEN NoText
    ELSE response.text

\* _reflect_on_attempt, lines 397-414, for expected_improvement a number of
\* grid steps
reflect_on_attempt(strat, actual_improvement, expected_improvement) ==
    [assessment |->
        IF actual_improvement >= expected_improvement THEN "exceeded_expectations"
        ELSE IF actual_improvement > 0 THEN "partial_success"
        ELSE IF actual_improvement > -Points(2) THEN "minimal_impact"
        ELSE "backfired",
     learning |-> <<strat.name,
        IF actual_improvement >= expected_improvement THEN "is effective"
        ELSE IF actual_improvement > 0 THEN "has limited impact"
        ELSE IF actual_improvement > -Points(2) THEN "may not be relevant"
        ELSE "avoid">>,
     success |-> actual_improvement > 0]

\* comparing a number with a value that is none: TypeError (line 397)
ReflectRaises(expected_improvement) == ~IsNumber(expected_improvement)

\* line 152 with the comparison made inclusive
KeepImprovementInclusive(actual_improvement) == actual_improvement >= -Points(1)
\* line 152 keeping every rescored text
KeepImprovementAlways(actual_improvement) == TRUE

\* line 152: keep the rewritten text unless it is significantly worse
KeepImprovement(actual_improvement) == actual_improvement > -Points(1)

\* line 156: the strategy counts as successful
IsSuccess(actual_improvement) == actual_improvement > 0

\* line 86 letting one iteration too many, one too few, through
LoopConditionLong(iter, score) == iter <= max_iterations /\ score < target_score
LoopConditionShort(iter, score) == iter < max_iterations - 1 /\ score < target_score

\* line 86: the while condition
LoopCondition(iter, score) == iter < max_iterations /\ score < target_score

\* line 68 with the comparison made strict
AlreadyAtTargetStrict(score) == score > target_score

\* line 68: nothing to optimize
AlreadyAtTarget(score) == score >= target_score

\* line 166: the target check that breaks out of the loop
TargetReached(score) == score >= target_score

\* _generate_final_reflection, lines 416-427
generate_final_reflection(original, final) ==
    LET improvement == final - original IN
    IF improvement >= Points(15) THEN "excellent"
    ELSE IF improvement >= Points(5) THEN "good"
    ELSE IF improvement > 0 THEN "modest"
    ELSE "none"

\* lines 70-78: the result of the early return
EarlyResult(resume, score) ==
    [optimized_resume |-> resume,
     final_score |-> score,
     original_score |-> score,
     iterations |-> 0,
     attempt_history |-> <<>>,
     strategy_used |-> "none",
     reflection |-> "Resume already meets target score"]

\* lines 184-196: the result after the loop
FinalResult ==
    [optimized_resume |-> current_resume,
     final_score |-> current_score,
     original_score |-> original_score,
     improvement |-> current_score - original_score,
     iterations_used |-> iteration,
     max_iterations |-> max_iterations,
     target_reached |-> current_score >= target_score,
     attempt_history |-> attempt_history,
     successful_strategies |-> successful_strategies,
     failed_strategies |-> failed_strategies,
     final_reflection |-> generate_final_reflection(original_score, current_score)]

NoStrategy == [name |-> None, expected_improvement |-> AbsentValue]
NoResult == [no_result |-> TRUE]

\* the locals of a call that has returned or raised are gone
NoLocals ==
    /\ original_score' = 0
    /\ current_resume' = NoText
    /\ current_score' = 0
    /\ iteration' = 0
    /\ strategy' = NoStrategy
    /\ improved_resume' = NoText

\* an exception leaves optimize_resume
Raise ==
    /\ pc' = "raised"
    /\ result' = NoResult
    /\ NoLocals

\* the head of the while loop (line 86), entered with `iter` iterations done
LoopHead(iter, score) ==
    IF LoopCondition(iter, score)
    THEN /\ iteration' = iter + 1
         /\ pc' = "reason"
    ELSE /\ iteration' = iter
         /\ pc' = "final"

\* optimize_resume is called: lines 58-87, to the early return or to the
\* first iteration's reasoning call
optimize_resume(resume, job) ==
    /\ pc \in {"idle", "returned", "raised"}
    /\ resume_text' = resume
    /\ job_text' = job
    /\ llm_calls' = 0
    /\ IF AnalyzeJob(job).raised
       THEN /\ score_calls' = 0
            /\ Raise
       ELSE LET score == ScoreOf(resume) IN
            /\ score_calls' = 1
            /\ IF AlreadyAtTarget(score)
               THEN /\ result' = EarlyResult(resume, score)
                    /\ pc' = "returned"
                    /\ NoLocals
               ELSE /\ original_score' = score
                    /\ current_resume' = resume
                    /\ current_score' = score
                    /\ strategy' = NoStrategy
                    /\ improved_resume' = NoText
                    /\ result' = NoResult
                    /\ LoopHead(0, score)
    /\ UNCHANGED <<instance_vars, memory_vars, job_vars, sim_vars,
                   skill_vars, calc_vars, call_vars>>

\* STEP 1 of an iteration, lines 94-99: the reasoning call comes back
Reasoning(response) ==
    /\ pc = "reason"
    /\ IF ReasoningPromptRaises
       THEN /\ Raise
            /\ UNCHANGED llm_calls
       ELSE /\ strategy' = reason_and_plan(response, iteration, successful_strategies)
            /\ llm_calls' = llm_calls + 1
            /\ pc' = "act"
            /\ UNCHANGED <<original_score, current_resume, current_score, iteration,
                           improved_resume, result>>
    /\ UNCHANGED <<instance_vars, memory_vars, resume_text, job_text,
                   score_calls, job_vars, sim_vars,
                   skill_vars, calc_vars, call_vars>>

\* STEPS 2-4 of an iteration, lines 107-168: the action call comes back, the
\* text is rescored, reflected on, logged and kept or reverted, and the loop
\* goes on or ends
Action(response) ==
    /\ pc = "act"
    /\ llm_calls' = llm_calls + 1
    /\ LET improved == apply_strategy(response)
           new_score == ScoreOf(improved)
           actual_improvement == new_score - current_score
           expected == strategy.expected_improvement
       IN
       /\ IF improved = NoText
          THEN \* lines 114-117: action failed, skip the iteration
               /\ failed_strategies' = Append(failed_strategies, strategy.name)
               /\ improved_resume' = improved
               /\ LoopHead(iteration, current_score)
               /\ UNCHANGED <<attempt_history, successful_strategies, score_calls,
                              current_resume, current_score, original_score,
                              strategy, result>>
          ELSE IF ReflectRaises(expected)
          THEN \* line 120 rescored, line 130 raised
               /\ score_calls' = score_calls + 1
               /\ Raise
               /\ UNCHANGED memory_vars
          ELSE /\ score_calls' = score_calls + 1
               /\ improved_resume' = improved
               /\ attempt_history' = Append(attempt_history,
                     [iteration |-> iteration,
                      strategy |-> strategy.name,
                      previous_score |-> current_score,
                      new_score |-> new_score,
                      improvement |-> actual_improvement,
                      reflection |-> reflect_on_attempt(strategy, actual_improvement,
                                                        expected.value)])
               /\ IF KeepImprovement(actual_improvement)
                  THEN /\ current_resume' = improved
                       /\ current_score' = new_score
                       /\ successful_strategies' =
                            IF IsSuccess(actual_improvement)
                            THEN Append(successful_strategies, strategy.name)
                            ELSE successful_strategies
                       /\ UNCHANGED failed_strategies
                  ELSE /\ failed_strategies' = Append(failed_strategies, strategy.name)
                       /\ UNCHANGED <<current_resume, current_score,
                                      successful_strategies>>
               /\ IF TargetReached(current_score')
                  THEN /\ pc' = "final"
                       /\ UNCHANGED iteration
                  ELSE LoopHead(iteration, current_score')
               /\ UNCHANGED <<original_score, strategy, result>>
    /\ UNCHANGED <<instance_vars, resume_text, job_text, job_vars, sim_vars,
                   skill_vars, calc_vars, call_vars>>

\* lines 170-196: the final summary is printed and the result returned
Finish ==
    /\ pc = "final"
    /\ IF JoinRaises(successful_strategies) \/ JoinRaises(failed_strategies)
       THEN Raise
       ELSE /\ result' = FinalResult
            /\ pc' = "returned"
            /\ NoLocals
    /\ UNCHANGED <<instance_vars, memory_vars, resume_text, job_text,
                   llm_calls, score_calls, job_vars, sim_vars,
                   skill_vars, calc_vars, call_vars>>

(***************************************************************************)
(* Specifications of the optimizer.  app.py:978-989 constructs an instance *)
(* per request and calls optimize_resume once: Spec.  The class itself     *)
(* lets one instance serve call after call (app.py:49 keeps such an        *)
(* instance): SpecReuse, with the collaborator's reasoning call failing.   *)
(***************************************************************************)
\* job texts given to optimize_resume: a plausible posting and a short text
ValidJobText == MkJobText(MinJobLength + ExtraLen, 0, 0, 1, 0, 0, FALSE)
ShortJobText == MkJobText(MinJobLength - 1, 0, 0, 1, 0, 0, FALSE)
RunJobTexts == {ValidJobText, ShortJobText}

NoJobText == MkJobText(0, 0, 0, 0, 0, 0, FALSE)

IdleJob ==
    /\ job_input = NoJobText
    /\ job_result = NoResult

IdleSim ==
    /\ sim_input = [no_input |-> TRUE]
    /\ sim_result = NoResult

NoReturn == [returned |-> FALSE, value |-> <<>>]

IdleSkills ==
    /\ skills = <<>>
    /\ dedup_result = NoReturn

\* a calculator just constructed: the vectorizer holds no vocabulary
IdleCalc ==
    /\ vocabulary = {}
    /\ score_log = <<>>

NoCall == [no_call |-> TRUE]

IdleCall ==
    /\ call_input = NoCall
    /\ call_result = NoReturn

\* target scores: one the scores can reach, one they cannot
TargetScores == {MaxScore - 1, MaxScore + 1}

\* __init__, lines 21-32
Init ==
    /\ max_iterations \in 0..MaxIter
    /\ target_score \in TargetScores
    /\ attempt_history = <<>>
    /\ successful_strategies = <<>>
    /\ failed_strategies = <<>>
    /\ pc = "idle"
    /\ resume_text = NoText
    /\ job_text = NoJobText
    /\ original_score = 0
    /\ current_resume = NoText
    /\ current_score = 0
    /\ iteration = 0
    /\ strategy = NoStrategy
    /\ improved_resume = NoText
    /\ result = NoResult
    /\ llm_calls = 0
    /\ score_calls = 0
    /\ IdleJob
    /\ IdleSim
    /\ IdleSkills
    /\ IdleCalc
    /\ IdleCall

Next ==
    \/ \E resume \in SubmittedTexts, job \in RunJobTexts :
          pc = "idle" /\ optimize_resume(resume, job)
    \/ \E response \in ReasonResponses : Reasoning(response)
    \/ \E response \in ActResponses : Action(response)
    \/ Finish

Spec == Init /\ [][Next]_vars

MemorySize == Len(attempt_history) + Len(failed_strategies)

NextReuse ==
    \/ \E resume \in SubmittedTexts, job \in RunJobTexts :
          MemorySize < MaxMemory /\ optimize_resume(resume, job)
    \/ \E response \in FailedReasonResponses : Reasoning(response)
    \/ \E response \in ActResponses : Action(response)
    \/ Finish

SpecReuse == Init /\ [][NextReuse]_vars

(***************************************************************************)
(* JobAnalyzer.analyze_job_description, called on a job text of its own.   *)
(***************************************************************************)
analyze_job_description ==
    /\ job_result = NoResult
    /\ job_result' = AnalyzeJob(job_input)
    /\ UNCHANGED <<instance_vars, memory_vars, run_vars, job_input, sim_vars,
                   skill_vars, calc_vars, call_vars>>

InitJob ==
    /\ max_iterations = MaxIter
    /\ target_score = MaxScore + 1
    /\ attempt_history = <<>>
    /\ successful_strategies = <<>>
    /\ failed_strategies = <<>>
    /\ pc = "idle"
    /\ resume_text = NoText
    /\ job_text = NoJobText
    /\ original_score = 0
    /\ current_resume = NoText
    /\ current_score = 0
    /\ iteration = 0
    /\ strategy = NoStrategy
    /\ improved_resume = NoText
    /\ result = NoResult
    /\ llm_calls = 0
    /\ score_calls = 0
    /\ job_input \in JobTexts
    /\ job_result = NoResult
    /\ IdleSim
    /\ IdleSkills
    /\ IdleCalc
    /\ IdleCall

NextJob == analyze_job_description

SpecJob == InitJob /\ [][NextJob]_vars

(***************************************************************************)
(* Similarity scoring.  Scores are hundredths of a percentage point, the   *)
(* grid round(x, 2) puts them on.                                          *)
(***************************************************************************)
\* indices/similarity_analyzer.py:112  min(max(similarity_score, 0), 100)
FullScore == 10000
\* indices/similarity_analyzer.py:60-63  the weights, in hundredths
WeightSemantic == 30
WeightSkill == 35
WeightExperience == 25
WeightEducation == 10
\* job_analyzer.py:967  overall_similarity * 0.8, in hundredths
ExperienceShare == 80

SimScores == {0, FullScore \div 2, FullScore}

\* one scoring request: the job text, and what the parts of the computation
\* come to on the two documents
SimInputs ==
    [job : RunJobTexts,
     \* EnhancedSimilarityAnalyzer.__init__ got an ai_service
     ai_service : BOOLEAN,
     \* embed_model.get_text_embedding raises
     embedding_raises : BOOLEAN,
     \* cosine of the two embeddings, in hundredths
     cosine : {-100, 0, 100},
     \* _calculate_skill_match, _calculate_experience_match,
     \* _calculate_education_match
     skill : SimScores, experience : SimScores, education : {0, FullScore},
     \* a later step of the enhanced computation raises
     enhanced_raises : BOOLEAN,
     \* TF-IDF cosine, calculate_skill_similarity
     lexical : SimScores, basic_skill : {0, FullScore},
     \* fit_transform or an extractor raises inside calculate_similarity
     basic_raises : BOOLEAN]

\* SimilarityCalculator.calculate_similarity, lines 906-982: the job text is
\* handed to the extractors and the vectorizer as it is
calculate_similarity(in) ==
    IF in.basic_raises
    THEN [raised |-> TRUE, error |-> "Similarity calculation failed",
          value |-> NoResult]
    ELSE [raised |-> FALSE, error |-> None,
          value |-> [overall_score |-> in.lexical,
                     skill_match_score |-> in.basic_skill,
                     experience_match_score |->
                         (in.lexical * ExperienceShare) \div 100]]

\* _fallback_similarity, lines 870-901
fallback_similarity(in) ==
    LET basic_scores == calculate_similarity(in) IN
    IF basic_scores.raised
    THEN [raised |-> FALSE, error |-> None,
          value |-> [success |-> FALSE,
                     error |-> basic_scores.error,
                     overall_score |-> 0]]
    ELSE [raised |-> FALSE, error |-> None,
          value |-> [success |-> TRUE,
                     overall_score |-> basic_scores.value.overall_score,
                     skill_match |-> basic_scores.value.skill_match_score,
                     experience_match |-> basic_scores.value.experience_match_score,
                     method |-> "basic_tfidf"]]

\* _calculate_semantic_similarity, lines 94-116
calculate_semantic_similarity(in) ==
    IF in.embedding_raises THEN 0
    ELSE LET similarity_score == ((in.cosine + 100) * FullScore) \div 200 IN
         IF similarity_score < 0 THEN 0
         ELSE IF similarity_score > FullScore THEN FullScore
         ELSE similarity_score

\* calculate_enhanced_similarity, lines 26-92
calculate_enhanced_similarity(in) ==
    IF ~in.ai_service THEN fallback_similarity(in)
    ELSE IF in.enhanced_raises THEN fallback_similarity(in)
    ELSE LET overall_similarity == calculate_semantic_similarity(in)
             weighted_score == (overall_similarity * WeightSemantic
                                + in.skill * WeightSkill
                                + in.experience * WeightExperience
                                + in.education * WeightEducation) \div 100
         IN [raised |-> FALSE, error |-> None,
             value |-> [success |-> TRUE,
                        overall_score |-> weighted_score,
                        semantic_similarity |-> overall_similarity,
                        skill_match |-> in.skill,
                        experience_match |-> in.experience,
                        education_match |-> in.education,
                        method |-> "ai_semantic"]]

\* a caller scores one resume against one job text, in basic or enhanced mode
BasicScoring ==
    /\ sim_result = NoResult
    /\ sim_result' = [call |-> "calculate_similarity",
                      return |-> calculate_similarity(sim_input)]
    /\ UNCHANGED <<instance_vars, memory_vars, run_vars, job_vars, sim_input,
                   skill_vars, calc_vars, call_vars>>

EnhancedScoring ==
    /\ sim_result = NoResult
    /\ sim_result' = [call |-> "calculate_enhanced_similarity",
                      return |-> calculate_enhanced_similarity(sim_input)]
    /\ UNCHANGED <<instance_vars, memory_vars, run_vars, job_vars, sim_input,
                   skill_vars, calc_vars, call_vars>>

InitSim ==
    /\ max_iterations = MaxIter
    /\ target_score = MaxScore + 1
    /\ attempt_history = <<>>
    /\ successful_strategies = <<>>
    /\ failed_strategies = <<>>
    /\ pc = "idle"
    /\ resume_text = NoText
    /\ job_text = NoJobText
    /\ original_score = 0
    /\ current_resume = NoText
    /\ current_score = 0
    /\ iteration = 0
    /\ strategy = NoStrategy
    /\ improved_resume = NoText
    /\ result = NoResult
    /\ llm_calls = 0
    /\ score_calls = 0
    /\ IdleJob
    /\ sim_input \in SimInputs
    /\ sim_result = NoResult
    /\ IdleSkills
    /\ IdleCalc
    /\ IdleCall

NextSim == BasicScoring \/ EnhancedScoring

SpecSim == InitSim /\ [][NextSim]_vars

(***************************************************************************)
(* SimilarityCalculator._deduplicate_skills (job_analyzer.py:802-904).     *)
(* A skill is a string: a sequence of characters.                          *)
(***************************************************************************)
\* longest skill list given to _deduplicate_skills
MaxSkills == 4

UpperCase == <<"A", "B", "C", "D", "E", "F", "G", "H", "I", "J", "K", "L", "M",
               "N", "O", "P", "Q", "R", "S", "T", "U", "V", "W", "X", "Y", "Z">>
LowerCase == <<"a", "b", "c", "d", "e", "f", "g", "h", "i", "j", "k", "l", "m",
               "n", "o", "p", "q", "r", "s", "t", "u", "v", "w", "x", "y", "z">>

\* str.lower(), character by character
lower_char(ch) ==
    IF \E i \in DOMAIN UpperCase : UpperCase[i] = ch
    THEN LowerCase[CHOOSE i \in DOMAIN UpperCase : UpperCase[i] = ch]
    ELSE ch

lower_of(s) == IF s = <<>> THEN <<>> ELSE [i \in 1..Len(s) |-> lower_char(s[i])]

\* str.strip()
RECURSIVE lstrip(_)
lstrip(s) == IF s # <<>> /\ Head(s) = " " THEN lstrip(Tail(s)) ELSE s

RECURSIVE rstrip(_)
rstrip(s) ==
    IF s # <<>> /\ s[Len(s)] = " " THEN rstrip(SubSeq(s, 1, Len(s) - 1)) ELSE s

strip_of(s) == rstrip(lstrip(s))

\* set(s.split()): the maximal blank-free runs of s
split_of(s) ==
    LET word_bounds ==
            { p \in (1..Len(s)) \X (1..Len(s)) :
                /\ p[1] <= p[2]
                /\ \A k \in p[1]..p[2] : s[k] # " "
                /\ (p[1] = 1 \/ s[p[1] - 1] = " ")
                /\ (p[2] = Len(s) \/ s[p[2] + 1] = " ") }
    IN { SubSeq(s, p[1], p[2]) : p \in word_bounds }

\* a in b, for strings
substring_of(a, b) ==
    \E i \in 1..(Len(b) - Len(a) + 1) : SubSeq(b, i, i + Len(a) - 1) = a

\* list.remove(x): the list without the first element equal to x
Remove(list, x) ==
    LET i == CHOOSE i \in 1..Len(list) :
                 list[i] = x /\ \A j \in 1..(i - 1) : list[j] # x
    IN SubSeq(list, 1, i - 1) \o SubSeq(list, i + 1, Len(list))

Java == <<"J", "a", "v", "a">>
JavaScript == <<"J", "a", "v", "a", "S", "c", "r", "i", "p", "t">>
ScriptPadded == <<" ", "s", "c", "r", "i", "p", "t", " ">>
Agile == <<"A", "g", "i", "l", "e">>
AgileMethodology ==
    <<"A", "g", "i", "l", "e", " ",
      "M", "e", "t", "h", "o", "d", "o", "l", "o", "g", "y">>
AgileScrum == <<"A", "g", "i", "l", "e", " ", "S", "c", "r", "u", "m">>
CiCd == <<"C", "I", "/", "C", "D">>
ContinuousIntegration ==
    <<"C", "o", "n", "t", "i", "n", "u", "o", "u", "s", " ",
      "I", "n", "t", "e", "g", "r", "a", "t", "i", "o", "n">>
ContinuousTestingIntegration ==
    <<"C", "o", "n", "t", "i", "n", "u", "o", "u", "s", " ",
      "T", "e", "s", "t", "i", "n", "g", " ",
      "I", "n", "t", "e", "g", "r", "a", "t", "i", "o", "n">>
SingleChar == <<"C">>

\* the skill strings the lists are made of
SkillTerms ==
    {Java, JavaScript, ScriptPadded, Agile, AgileMethodology, AgileScrum, CiCd,
     ContinuousIntegration, ContinuousTestingIntegration, SingleChar}

\* The string operations on the skill terms, their stripped and their
\* lower-case forms, tabulated once; any other string is computed on.
StrippedTerms == SkillTerms \cup { strip_of(t) : t \in SkillTerms }
KnownStrings == StrippedTerms \cup { lower_of(t) : t \in StrippedTerms }
StripTable == [t \in KnownStrings |-> strip_of(t)]
LowerTable == [t \in KnownStrings |-> lower_of(t)]
SplitTable == [t \in KnownStrings |-> split_of(t)]
SubstringTable == [p \in KnownStrings \X KnownStrings |-> substring_of(p[1], p[2])]

strip(s) == IF s \in KnownStrings THEN StripTable[s] ELSE strip_of(s)
lower(s) == IF s \in KnownStrings THEN LowerTable[s] ELSE lower_of(s)
split(s) == IF s \in KnownStrings THEN SplitTable[s] ELSE split_of(s)
IsSubstring(a, b) ==
    IF a \in KnownStrings /\ b \in KnownStrings
    THEN SubstringTable[<<a, b>>]
    ELSE substring_of(a, b)

RECURSIVE SkillLists(_)
SkillLists(n) ==
    IF n = 0 THEN {<<>>}
    ELSE LET shorter == SkillLists(n - 1) IN
         shorter \cup { Append(l, t) : l \in { l \in shorter : Len(l) = n - 1 },
                                       t \in SkillTerms }

\* line 859 without the spelled-out forms
ci_cd_abbreviations ==
    {<<"c", "i", "/", "c", "d">>, <<"c", "i", "-", "c", "d">>,
     <<"c", "i", "c", "d">>}

\* line 859: ci_cd_variants
ci_cd_variants ==
    {<<"c", "i", "/", "c", "d">>, <<"c", "i", "-", "c", "d">>,
     <<"c", "i", "c", "d">>,
     lower_of(ContinuousIntegration),
     <<"c", "o", "n", "t", "i", "n", "u", "o", "u", "s", " ",
       "d", "e", "p", "l", "o", "y", "m", "e", "n", "t">>,
     <<"c", "o", "n", "t", "i", "n", "u", "o", "u", "s", " ",
       "d", "e", "l", "i", "v", "e", "r", "y">>}

agile == <<"a", "g", "i", "l", "e">>

\* lines 810-815: strip every skill, drop the empty and single-character ones
cleaned_skills(skill_list) ==
    LET stripped == [i \in 1..Len(skill_list) |-> strip(skill_list[i])] IN
    IF skill_list = <<>> THEN <<>>
    ELSE SelectSeq(stripped, LAMBDA skill : Len(skill) > 1)

\* the state of the deduplication loop
DedupState(unique, seen) == [unique_skills |-> unique, seen_lower |-> seen]

Discard(st, existing) ==
    DedupState(Remove(st.unique_skills, existing),
               st.seen_lower \ {lower(existing)})

\* lines 831-845: the first existing skill that contains the current one or
\* is contained in it decides; the loop looks no further
substring_check(skill_lower, st) ==
    LET unique == st.unique_skills
        related(k) ==
            /\ skill_lower # lower(unique[k])
            /\ \/ IsSubstring(skill_lower, lower(unique[k]))
               \/ IsSubstring(lower(unique[k]), skill_lower)
        hits == { k \in 1..Len(unique) : related(k) }
    IN IF hits = {}
       THEN [is_substring |-> FALSE, state |-> st]
       ELSE LET k == CHOOSE k \in hits : \A h \in hits : k <= h
                existing == unique[k]
            IN IF IsSubstring(skill_lower, lower(existing))
               THEN [is_substring |-> TRUE, state |-> st]
               ELSE [is_substring |-> FALSE, state |-> Discard(st, existing)]

\* lines 889: overlap / min_words > 0.7
WordOverlap(words_current, words_existing) ==
    LET overlap == Cardinality(words_current \cap words_existing)
        min_words == Min(Cardinality(words_current), Cardinality(words_existing))
    IN 10 * overlap > 7 * min_words

\* lines 854-896: the loop over list(unique_skills), from its k-th element
RECURSIVE overlap_check(_, _, _, _)
overlap_check(skill_lower, snapshot, k, st) ==
    IF k > Len(snapshot)
    THEN [skip_due_to_overlap |-> FALSE, state |-> st]
    ELSE LET existing == snapshot[k]
             existing_lower == lower(existing)
             words_current == split(skill_lower)
             words_existing == split(existing_lower)
         IN IF skill_lower \in ci_cd_variants /\ existing_lower \in ci_cd_variants
            THEN [skip_due_to_overlap |-> TRUE, state |-> st]
            ELSE IF IsSubstring(agile, skill_lower) /\ IsSubstring(agile, existing_lower)
            THEN IF skill_lower = agile
                 THEN [skip_due_to_overlap |-> FALSE,
                       state |-> Discard(st, existing)]
                 ELSE [skip_due_to_overlap |-> TRUE, state |-> st]
            ELSE IF /\ words_current # {}
                    /\ words_existing # {}
                    /\ WordOverlap(words_current, words_existing)
            THEN IF Len(skill_lower) <= Len(existing_lower)
                 THEN [skip_due_to_overlap |-> TRUE, state |-> st]
                 ELSE overlap_check(skill_lower, snapshot, k + 1,
                                    Discard(st, existing))
            ELSE overlap_check(skill_lower, snapshot, k + 1, st)

\* lines 824-902: one pass of the outer loop, for one cleaned skill
dedup_step(skill, st) ==
    LET skill_lower == lower(skill) IN
    IF skill_lower \in st.seen_lower THEN st
    ELSE LET sub == substring_check(skill_lower, st) IN
         IF sub.is_substring THEN sub.state
         ELSE LET over == overlap_check(skill_lower, sub.state.unique_skills,
                                        1, sub.state)
              IN IF over.skip_due_to_overlap THEN over.state
                 ELSE DedupState(Append(over.state.unique_skills, skill),
                                 over.state.seen_lower \cup {skill_lower})

RECURSIVE dedup_loop(_, _, _)
dedup_loop(cleaned, k, st) ==
    IF k > Len(cleaned) THEN st
    ELSE dedup_loop(cleaned, k + 1, dedup_step(cleaned[k], st))

\* _deduplicate_skills, lines 802-904
deduplicate_skills(skill_list) ==
    IF skill_list = <<>> THEN <<>>
    ELSE LET cleaned == cleaned_skills(skill_list) IN
         IF cleaned = <<>> THEN <<>>
         ELSE dedup_loop(cleaned, 1, DedupState(<<>>, {})).unique_skills

\* a caller deduplicates one skill list
Deduplicate ==
    /\ ~dedup_result.returned
    /\ dedup_result' = [returned |-> TRUE, value |-> deduplicate_skills(skills)]
    /\ UNCHANGED <<instance_vars, memory_vars, run_vars, job_vars, sim_vars,
                   skills, calc_vars, call_vars>>

InitDedup ==
    /\ max_iterations = MaxIter
    /\ target_score = MaxScore + 1
    /\ attempt_history = <<>>
    /\ successful_strategies = <<>>
    /\ failed_strategies = <<>>
    /\ pc = "idle"
    /\ resume_text = NoText
    /\ job_text = NoJobText
    /\ original_score = 0
    /\ current_resume = NoText
    /\ current_score = 0
    /\ iteration = 0
    /\ strategy = NoStrategy
    /\ improved_resume = NoText
    /\ result = NoResult
    /\ llm_calls = 0
    /\ score_calls = 0
    /\ IdleJob
    /\ IdleSim
    /\ skills \in SkillLists(MaxSkills)
    /\ dedup_result = NoReturn
    /\ IdleCalc
    /\ IdleCall

NextDedup == Deduplicate

SpecDedup == InitDedup /\ [][NextDedup]_vars


(***************************************************************************)
(* One SimilarityCalculator instance scoring pair after pair               *)
(* (job_analyzer.py:798-800, 906-982).  A document is the set of terms it  *)
(* contains; the terms double as its skills.                               *)
(***************************************************************************)
\* scoring calls made on the one instance
MaxScorings == 3

\* TfidfVectorizer's smoothed idf of a term, in tenths: ln(3 / (1 + df)) + 1
\* for the two documents of a fit
IdfInBoth == 10
IdfInOne == 14

Terms == {"python", "sql", "aws"}
Documents == {{"python", "sql"}, {"python", "aws"}, {"sql", "aws"}}

\* the two-step TfidfVectorizer.fit_transform of line 941 is fit, then
\* transform; this variant transforms with the vocabulary of the previous
\* fit when there is one
stale_vocabulary(fitted_before, documents, fitted_now) ==
    IF fitted_before = {} THEN fitted_now ELSE fitted_before

\* TfidfVectorizer.fit: the vocabulary of the documents, each term with its idf
fit(documents) ==
    { <<t, IF \A k \in DOMAIN documents : t \in documents[k]
           THEN IdfInBoth ELSE IdfInOne>> :
      t \in UNION { documents[k] : k \in DOMAIN documents } }

\* line 941: the vocabulary fit_transform transforms with is the one it has
\* just fitted on the documents
transform_vocabulary(fitted_before, documents, fitted_now) == fitted_now

\* TfidfVectorizer.transform: the tf-idf weight of each vocabulary term
transform(fitted, document) ==
    { <<p[1], IF p[1] \in document THEN p[2] ELSE 0>> : p \in fitted }

RECURSIVE SumOf(_)
SumOf(weights) ==
    IF weights = {} THEN 0
    ELSE LET w == CHOOSE w \in weights : TRUE IN w[2] + SumOf(weights \ {w})

\* the dot product of two rows of the tf-idf matrix
Dot(row1, row2) ==
    SumOf({ <<p[1], p[2] * (CHOOSE q \in row2 : q[1] = p[1])[2]>> : p \in row1 })

\* lines 944-945: cosine_similarity(...) * 100, to the whole percent below
cosine_percent(row1, row2) ==
    LET dot == Dot(row1, row2)
        norms == Dot(row1, row1) * Dot(row2, row2)
    IN IF norms = 0 THEN 0
       ELSE CHOOSE r \in 0..100 :
                /\ r * r * norms <= 10000 * dot * dot
                /\ (r + 1) * (r + 1) * norms > 10000 * dot * dot

\* line 1022 with the two weights exchanged
skill_similarity_swapped(resume_skills_set, job_skills_set) ==
    IF job_skills_set = {} THEN 0
    ELSE LET intersection == Cardinality(resume_skills_set \cap job_skills_set)
             union == Cardinality(resume_skills_set \cup job_skills_set)
             job_match_percentage ==
                 (intersection * FullScore) \div Cardinality(job_skills_set)
             jaccard_similarity == (intersection * FullScore) \div union
         IN Min((job_match_percentage * 30 + jaccard_similarity * 70) \div 100,
                FullScore)

\* calculate_skill_similarity, lines 1006-1024, in hundredths
calculate_skill_similarity(resume_skills_set, job_skills_set) ==
    IF job_skills_set = {} THEN 0
    ELSE LET intersection == Cardinality(resume_skills_set \cap job_skills_set)
             union == Cardinality(resume_skills_set \cup job_skills_set)
             job_match_percentage ==
                 (intersection * FullScore) \div Cardinality(job_skills_set)
             jaccard_similarity == (intersection * FullScore) \div union
             weighted_similarity ==
                 (job_match_percentage * 70 + jaccard_similarity * 30) \div 100
         IN Min(weighted_similarity, FullScore)

\* lines 937-979 on the documents, transformed with the given vocabulary
scores_of(resume, job, fitted) ==
    calculate_similarity(
        [basic_raises |-> FALSE,
         lexical |-> 100 * cosine_percent(transform(fitted, resume),
                                          transform(fitted, job)),
         basic_skill |-> calculate_skill_similarity(resume, job)]).value

\* calculate_similarity(resume, job) on the instance
Scoring(resume, job) ==
    LET documents == <<resume, job>>
        fitted_now == fit(documents)
        used == transform_vocabulary(vocabulary, documents, fitted_now)
    IN /\ Len(score_log) < MaxScorings
       /\ vocabulary' = fitted_now
       /\ score_log' = Append(score_log,
                              [resume_text |-> resume, job_text |-> job,
                               scores |-> scores_of(resume, job, used)])
       /\ UNCHANGED <<instance_vars, memory_vars, run_vars, job_vars, sim_vars,
                      skill_vars, call_vars>>

InitCalc ==
    /\ max_iterations = MaxIter
    /\ target_score = MaxScore + 1
    /\ attempt_history = <<>>
    /\ successful_strategies = <<>>
    /\ failed_strategies = <<>>
    /\ pc = "idle"
    /\ resume_text = NoText
    /\ job_text = NoJobText
    /\ original_score = 0
    /\ current_resume = NoText
    /\ current_score = 0
    /\ iteration = 0
    /\ strategy = NoStrategy
    /\ improved_resume = NoText
    /\ result = NoResult
    /\ llm_calls = 0
    /\ score_calls = 0
    /\ IdleJob
    /\ IdleSim
    /\ IdleSkills
    /\ IdleCalc
    /\ IdleCall

NextCalc == \E resume \in Documents, job \in Documents : Scoring(resume, job)

SpecCalc == InitCalc /\ [][NextCalc]_vars

(***************************************************************************)
(* _reflect_on_attempt called on its own, with every improvement and every *)
(* expected improvement within MaxDelta points.                            *)
(***************************************************************************)
MaxDelta == 3

\* the optimizer and the other helpers are not in use
IdleOptimizer ==
    /\ max_iterations = MaxIter
    /\ target_score = MaxScore + 1
    /\ attempt_history = <<>>
    /\ successful_strategies = <<>>
    /\ failed_strategies = <<>>
    /\ pc = "idle"
    /\ resume_text = NoText
    /\ job_text = NoJobText
    /\ original_score = 0
    /\ current_resume = NoText
    /\ current_score = 0
    /\ iteration = 0
    /\ strategy = NoStrategy
    /\ improved_resume = NoText
    /\ result = NoResult
    /\ llm_calls = 0
    /\ score_calls = 0

Deltas == -Points(MaxDelta)..Points(MaxDelta)

\* the expected improvements a strategy can declare: the number a plan
\* holds (lines 251-260), the default, and those of the fallback
ExpectedImprovements ==
    Deltas \cup {Points(DefaultExpected), Points(FallbackExpectedFirst),
                 Points(FallbackExpectedSummary), Points(FallbackExpectedSkills)}

ReflectInputs ==
    [strategy : {[name |-> n, expected_improvement |-> Number(e)] :
                    n \in {"keyword_optimization"}, e \in ExpectedImprovements},
     actual_improvement : Deltas]

\* line 130: reflection = self._reflect_on_attempt(strategy,
\* actual_improvement, strategy['expected_improvement'])
Reflect ==
    /\ call_input \in ReflectInputs
    /\ ~call_result.returned
    /\ call_result' =
         [returned |-> TRUE,
          value |-> reflect_on_attempt(call_input.strategy,
                                       call_input.actual_improvement,
                                       call_input.strategy.expected_improvement.value)]
    /\ UNCHANGED <<instance_vars, memory_vars, run_vars, job_vars, sim_vars,
                   skill_vars, calc_vars, call_input>>

InitReflect ==
    /\ IdleOptimizer
    /\ IdleJob
    /\ IdleSim
    /\ IdleSkills
    /\ IdleCalc
    /\ call_input \in ReflectInputs
    /\ call_result = NoReturn

NextReflect == Reflect

SpecReflect == InitReflect /\ [][NextReflect]_vars

(***************************************************************************)
(* _deduplicate_skills called on lists of at most MaxPair skills, two of   *)
(* which share three of their three and four words.                        *)
(***************************************************************************)
MaxPair == 2

CloudDataPlatformEngineering ==
    <<"C", "l", "o", "u", "d", " ", "D", "a", "t", "a", " ", "P", "l",
      "a", "t", "f", "o", "r", "m", " ", "E", "n", "g", "i", "n", "e",
      "e", "r", "i", "n", "g">>
DataCloudPlatform ==
    <<"D", "a", "t", "a", " ", "C", "l", "o", "u", "d", " ", "P", "l",
      "a", "t", "f", "o", "r", "m">>

OverlapTerms == SkillTerms \cup {CloudDataPlatformEngineering, DataCloudPlatform}

RECURSIVE OverlapLists(_)
OverlapLists(n) ==
    IF n = 0 THEN {<<>>}
    ELSE LET shorter == OverlapLists(n - 1) IN
         shorter \cup { Append(l, t) : l \in { l \in shorter : Len(l) = n - 1 },
                                       t \in OverlapTerms }

InitOverlap ==
    /\ IdleOptimizer
    /\ IdleJob
    /\ IdleSim
    /\ skills \in OverlapLists(MaxPair)
    /\ dedup_result = NoReturn
    /\ IdleCalc
    /\ IdleCall

NextOverlap == Deduplicate

SpecOverlap == InitOverlap /\ [][NextOverlap]_vars

(***************************************************************************)
(* SimilarityCalculator.calculate_skill_similarity called on its own: the   *)
(* two extractors hand it lists of at most MaxExtracted skills.            *)
(***************************************************************************)
MaxExtracted == 2

\* the skills the extractors find: two spellings of one skill among them
ExtractedTerms == {Java, lower_of(Java), JavaScript, Agile, CiCd, SingleChar}

RECURSIVE ExtractedLists(_)
ExtractedLists(n) ==
    IF n = 0 THEN {<<>>}
    ELSE LET shorter == ExtractedLists(n - 1) IN
         shorter \cup { Append(l, t) : l \in { l \in shorter : Len(l) = n - 1 },
                                       t \in ExtractedTerms }

\* set(skill.lower() for skill in skills)
LowerSet(skill_list) == { lower(skill_list[i]) : i \in 1..Len(skill_list) }

SkillScoreInputs ==
    [resume_skills : ExtractedLists(MaxExtracted),
     job_skills : ExtractedLists(MaxExtracted),
     \* an extractor raises
     extraction_raises : BOOLEAN]

\* calculate_skill_similarity, lines 986-1028, from what the extractors
\* return, in hundredths
skill_similarity_of(in) ==
    IF in.extraction_raises THEN 0
    ELSE IF in.job_skills = <<>> THEN 0
    ELSE calculate_skill_similarity(
             LowerSet(deduplicate_skills(in.resume_skills)),
             LowerSet(deduplicate_skills(in.job_skills)))

SkillSimilarity ==
    /\ call_input \in SkillScoreInputs
    /\ ~call_result.returned
    /\ call_result' = [returned |-> TRUE, value |-> skill_similarity_of(call_input)]
    /\ UNCHANGED <<instance_vars, memory_vars, run_vars, job_vars, sim_vars,
                   skill_vars, calc_vars, call_input>>

InitSkillScore ==
    /\ IdleOptimizer
    /\ IdleJob
    /\ IdleSim
    /\ IdleSkills
    /\ IdleCalc
    /\ call_input \in SkillScoreInputs
    /\ call_result = NoReturn

NextSkillScore == SkillSimilarity

SpecSkillScore == InitSkillScore /\ [][NextSkillScore]_vars

(***************************************************************************)
(* EnhancedSimilarityAnalyzer._calculate_experience_match called on its    *)
(* own.  Years are counted in tenths, as _calculate_total_experience       *)
(* rounds them (line 396); scores are in hundredths.                       *)
(***************************************************************************)
MaxYears == 21

OverqualifiedScore == 9000
UnderqualifiedBase == 5000

\* lines 313-322: experience_ranges, in the order the loop of line 327 goes
\* through them
experience_ranges ==
    <<[level |-> <<"j", "u", "n", "i", "o", "r">>,
      min_years |-> 0, max_years |-> 20],
     [level |-> <<"e", "n", "t", "r", "y">>,
      min_years |-> 0, max_years |-> 20],
     [level |-> <<"m", "i", "d", "-", "l", "e", "v", "e", "l">>,
      min_years |-> 20, max_years |-> 50],
     [level |-> <<"i", "n", "t", "e", "r", "m", "e", "d", "i", "a", "t", "e">>,
      min_years |-> 20, max_years |-> 50],
     [level |-> <<"s", "e", "n", "i", "o", "r">>,
      min_years |-> 50, max_years |-> 100],
     [level |-> <<"l", "e", "a", "d">>,
      min_years |-> 70, max_years |-> 150],
     [level |-> <<"p", "r", "i", "n", "c", "i", "p", "a", "l">>,
      min_years |-> 100, max_years |-> 200],
     [level |-> <<"s", "t", "a", "f", "f">>,
      min_years |-> 100, max_years |-> 200]>>

\* job_data['experience_level'] as the job analysis and other callers give it
SeniorLevel == <<"S", "e", "n", "i", "o", "r">>
MidLevel == <<"M", "i", "d", "-", "L", "e", "v", "e", "l">>
JuniorLevel == <<"J", "u", "n", "i", "o", "r">>
NotSpecified == <<"N", "o", "t", " ", "S", "p", "e", "c", "i", "f", "i", "e", "d">>
LeadLevel == <<"L", "e", "a", "d">>
PrincipalLevel == <<"P", "r", "i", "n", "c", "i", "p", "a", "l", " ", "E", "n", "g", "i", "n", "e", "e", "r">>
EntryLevel == <<"E", "n", "t", "r", "y", " ", "L", "e", "v", "e", "l">>
ExecutiveLevel == <<"E", "x", "e", "c", "u", "t", "i", "v", "e">>

ExperienceLevels ==
    {SeniorLevel, MidLevel, JuniorLevel, NotSpecified, LeadLevel,
     PrincipalLevel, EntryLevel, ExecutiveLevel}

ExperienceInputs ==
    [\* what _calculate_total_experience returns, in tenths of a year
     total_years : 0..(10 * MaxYears),
     experience_level : ExperienceLevels,
     \* an entry of the resume or the job is not of the declared type, so
     \* that a .get or a .lower raises inside the try
     malformed : BOOLEAN]

\* line 339 taken without the floor
experience_score_unfloored(total_years, range) ==
    IF range.min_years <= total_years /\ total_years <= range.max_years
    THEN [score |-> FullScore, match_status |-> "perfect"]
    ELSE IF total_years > range.max_years
    THEN [score |-> OverqualifiedScore, match_status |-> "overqualified"]
    ELSE LET gap == range.min_years - total_years IN
         [score |-> UnderqualifiedBase - gap * 100,
          match_status |-> "underqualified"]

\* lines 329-340: the score against the range of the level found
experience_score(total_years, range) ==
    IF range.min_years <= total_years /\ total_years <= range.max_years
    THEN [score |-> FullScore, match_status |-> "perfect"]
    ELSE IF total_years > range.max_years
    THEN [score |-> OverqualifiedScore, match_status |-> "overqualified"]
    ELSE LET gap == range.min_years - total_years
             penalised == UnderqualifiedBase - gap * 100
         IN [score |-> IF penalised > 0 THEN penalised ELSE 0,
             match_status |-> "underqualified"]

\* lines 306-353
calculate_experience_match(in) ==
    IF in.malformed
    THEN [score |-> 0, candidate_years |-> 0, match_status |-> "unknown"]
    ELSE LET job_experience_level == lower_of(in.experience_level)
             found == {k \in 1..Len(experience_ranges) :
                          substring_of(experience_ranges[k].level,
                                       job_experience_level)}
         IN IF found = {}
            THEN [score |-> FullScore, candidate_years |-> in.total_years,
                  match_status |-> "perfect"]
            ELSE LET first == CHOOSE k \in found : \A j \in found : k <= j
                     matched == experience_score(in.total_years,
                                                 experience_ranges[first])
                 IN [score |-> matched.score,
                     candidate_years |-> in.total_years,
                     match_status |-> matched.match_status]

ExperienceMatch ==
    /\ call_input \in ExperienceInputs
    /\ ~call_result.returned
    /\ call_result' = [returned |-> TRUE,
                       value |-> calculate_experience_match(call_input)]
    /\ UNCHANGED <<instance_vars, memory_vars, run_vars, job_vars, sim_vars,
                   skill_vars, calc_vars, call_input>>

InitExperience ==
    /\ IdleOptimizer
    /\ IdleJob
    /\ IdleSim
    /\ IdleSkills
    /\ IdleCalc
    /\ call_input \in ExperienceInputs
    /\ call_result = NoReturn

NextExperience == ExperienceMatch

SpecExperience == InitExperience /\ [][NextExperience]_vars

(***************************************************************************)
(* EnhancedSimilarityAnalyzer._calculate_education_match called on its     *)
(* own, on resumes of at most MaxDegrees education entries.                *)
(***************************************************************************)
MaxDegrees == 2

CloseScore == 7500
BelowScore == 5000

\* lines 431-443: degree_levels
degree_levels ==
    <<[degree |-> <<"p", "h", "d">>, level |-> 5],
      [degree |-> <<"d", "o", "c", "t", "o", "r", "a", "t", "e">>, level |-> 5],
      [degree |-> <<"m", "a", "s", "t", "e", "r">>, level |-> 4],
      [degree |-> <<"m", "a", "s", "t", "e", "r", "'", "s">>, level |-> 4],
      [degree |-> <<"m", "s", "c">>, level |-> 4],
      [degree |-> <<"m", "b", "a">>, level |-> 4],
      [degree |-> <<"b", "a", "c", "h", "e", "l", "o", "r">>, level |-> 3],
      [degree |-> <<"b", "a", "c", "h", "e", "l", "o", "r", "'", "s">>, level |-> 3],
      [degree |-> <<"b", "s", "c">>, level |-> 3],
      [degree |-> <<"a", "s", "s", "o", "c", "i", "a", "t", "e">>, level |-> 2],
      [degree |-> <<"d", "i", "p", "l", "o", "m", "a">>, level |-> 1]>>

\* edu['degree'] of a resume's education entries
DiplomaInIT == <<"D", "i", "p", "l", "o", "m", "a", " ", "i", "n", " ", "I", "T">>
BScDegree == <<"B", "S", "c">>
BachelorOfArts == <<"B", "a", "c", "h", "e", "l", "o", "r", " ", "o", "f", " ", "A", "r", "t", "s">>
MasterOfScience == <<"M", "a", "s", "t", "e", "r", " ", "o", "f", " ", "S", "c", "i", "e", "n", "c", "e">>
PhDDegree == <<"P", "h", "D">>
Certificate == <<"C", "e", "r", "t", "i", "f", "i", "c", "a", "t", "e">>

Degrees ==
    {DiplomaInIT, BScDegree, BachelorOfArts, MasterOfScience, PhDDegree,
     Certificate}

\* job_data['description']
BachelorRequired == <<"B", "a", "c", "h", "e", "l", "o", "r", " ", "d", "e", "g", "r", "e", "e", " ", "r", "e", "q", "u", "i", "r", "e", "d">>
MastersPreferred == <<"M", "a", "s", "t", "e", "r", "'", "s", " ", "p", "r", "e", "f", "e", "r", "r", "e", "d">>
DoctorateRequired == <<"D", "o", "c", "t", "o", "r", "a", "t", "e", " ", "r", "e", "q", "u", "i", "r", "e", "d">>
DiplomaRequired == <<"D", "i", "p", "l", "o", "m", "a", " ", "r", "e", "q", "u", "i", "r", "e", "d">>
NoDegreeWords == <<"B", "u", "i", "l", "d", " ", "w", "e", "b", " ", "a", "p", "p", "s">>

JobDescriptions ==
    {BachelorRequired, MastersPreferred, DoctorateRequired, DiplomaRequired,
     NoDegreeWords}

RECURSIVE DegreeLists(_)
DegreeLists(n) ==
    IF n = 0 THEN {<<>>}
    ELSE LET shorter == DegreeLists(n - 1) IN
         shorter \cup { Append(l, t) : l \in { l \in shorter : Len(l) = n - 1 },
                                       t \in Degrees }

EducationInputs ==
    [education : DegreeLists(MaxDegrees),
     description : JobDescriptions,
     \* an entry is not of the declared type: a .get or a .lower raises
     malformed : BOOLEAN]

\* lines 449-451 and 455-457: the highest level whose keyword the text holds,
\* 0 if it holds none
LevelIn(text) ==
    LET found == {degree_levels[k].level :
                     k \in {k \in 1..Len(degree_levels) :
                               substring_of(degree_levels[k].degree, lower_of(text))}}
    IN IF found = {} THEN 0
       ELSE CHOOSE l \in found : \A o \in found : o <= l

\* lines 446-451: the highest level over the education entries
CandidateLevel(education) ==
    LET levels == {LevelIn(education[i]) : i \in 1..Len(education)} \cup {0}
    IN CHOOSE l \in levels : \A o \in levels : o <= l

\* lines 425-483
calculate_education_match(in) ==
    IF in.malformed
    THEN [score |-> FullScore, status |-> "not_specified",
          candidate_level |-> 0, required_level |-> 0]
    ELSE LET candidate_level == CandidateLevel(in.education)
             required_level == LevelIn(in.description)
             scored ==
                 IF required_level = 0
                 THEN [score |-> FullScore, status |-> "not_required"]
                 ELSE IF candidate_level >= required_level
                 THEN [score |-> FullScore, status |-> "meets_requirement"]
                 ELSE IF candidate_level = required_level - 1
                 THEN [score |-> CloseScore, status |-> "close"]
                 ELSE [score |-> BelowScore, status |-> "below_requirement"]
         IN [score |-> scored.score, status |-> scored.status,
             candidate_level |-> candidate_level,
             required_level |-> required_level]

EducationMatch ==
    /\ call_input \in EducationInputs
    /\ ~call_result.returned
    /\ call_result' = [returned |-> TRUE,
                       value |-> calculate_education_match(call_input)]
    /\ UNCHANGED <<instance_vars, memory_vars, run_vars, job_vars, sim_vars,
                   skill_vars, calc_vars, call_input>>

InitEducation ==
    /\ IdleOptimizer
    /\ IdleJob
    /\ IdleSim
    /\ IdleSkills
    /\ IdleCalc
    /\ call_input \in EducationInputs
    /\ call_result = NoReturn

NextEducation == EducationMatch

SpecEducation == InitEducation /\ [][NextEducation]_vars

(***************************************************************************)
(* EnhancedSimilarityAnalyzer._calculate_skill_match called on its own, on *)
(* skill lists of at most MaxExtracted entries.                            *)
(***************************************************************************)
\* lines 145 and 181: cicd_terms
cicd_terms ==
    {<<"c", "i", "/", "c", "d">>,
     <<"c", "i", "-", "c", "d">>,
     <<"c", "i", "c", "d">>,
     <<"c", "o", "n", "t", "i", "n", "u", "o", "u", "s", " ", "i", "n", "t", "e", "g", "r", "a", "t", "i", "o", "n">>,
     <<"c", "o", "n", "t", "i", "n", "u", "o", "u", "s", " ", "d", "e", "p", "l", "o", "y", "m", "e", "n", "t">>}

SkillMatchInputs ==
    [skills : ExtractedLists(MaxExtracted),
     required_skills : ExtractedLists(MaxExtracted),
     \* ai_service is set and the embeddings of any two skills left over are
     \* at least `threshold` alike
     embeddings_alike : BOOLEAN]

\* lines 132 and 169: the entry is skipped
SkippedSkill(skill) == Len(strip(skill)) < 2

\* lines 176-192: the tests of one skill against one seen before
SeenBefore(skill_lower, seen) ==
    \/ skill_lower = seen
    \/ IsSubstring(skill_lower, seen)
    \/ IsSubstring(seen, skill_lower)
    \/ (skill_lower \in cicd_terms /\ seen \in cicd_terms)
    \/ LET skill_words == split(skill_lower)
           seen_words == split(seen)
           larger == IF Cardinality(skill_words) >= Cardinality(seen_words)
                     THEN Cardinality(skill_words) ELSE Cardinality(seen_words)
       IN /\ skill_words # {}
          /\ seen_words # {}
          /\ 10 * Cardinality(skill_words \cap seen_words) > 7 * larger

\* lines 164-196: required_normalized, from the k-th raw entry on
RECURSIVE normalize_required(_, _, _)
normalize_required(required_skills_raw, k, required_normalized) ==
    IF k > Len(required_skills_raw) THEN required_normalized
    ELSE LET skill == required_skills_raw[k]
             skill_lower == lower(strip(skill))
             is_duplicate == \E i \in 1..Len(required_normalized) :
                                 SeenBefore(skill_lower, required_normalized[i])
         IN normalize_required(
                required_skills_raw, k + 1,
                IF SkippedSkill(skill) \/ is_duplicate
                THEN required_normalized
                ELSE Append(required_normalized, skill_lower))

\* lines 127-161: the for loop of line 131 ends at line 137, so that lines
\* 138-161 run once, after it, on the names the last entry not skipped has
\* left bound; when no entry was bound, line 159 raises NameError
normalize_resume(resume_skills_raw) ==
    LET bound == {k \in 1..Len(resume_skills_raw) :
                     ~SkippedSkill(resume_skills_raw[k])}
    IN IF bound = {}
       THEN [raised |-> TRUE, resume_normalized |-> <<>>]
       ELSE LET last == CHOOSE k \in bound : \A j \in bound : j <= k IN
            [raised |-> FALSE,
             resume_normalized |-> <<lower(strip(resume_skills_raw[last]))>>]

\* lines 243-244: the result of the except branch
SkillMatchFailed ==
    [score |-> 0, matched |-> {}, missing |-> {}, total_required |-> 0]

\* _find_semantic_skill_matches, lines 246-298
find_semantic_skill_matches(candidate_skills, required_skills, embeddings_alike) ==
    IF ~embeddings_alike \/ candidate_skills = {} \/ required_skills = {}
    THEN {}
    ELSE {req_skill \in required_skills :
             ~\E cand \in candidate_skills :
                  IsSubstring(req_skill, cand) \/ IsSubstring(cand, req_skill)}

\* lines 124-244
calculate_skill_match(in) ==
    LET normalized == normalize_resume(in.skills) IN
    IF normalized.raised THEN SkillMatchFailed
    ELSE LET resume_skills == {normalized.resume_normalized[i] :
                                  i \in 1..Len(normalized.resume_normalized)}
             required_normalized == normalize_required(in.required_skills, 1, <<>>)
             required_skills == {required_normalized[i] :
                                    i \in 1..Len(required_normalized)}
             direct_matches ==
                 {req_skill \in required_skills :
                     \E res_skill \in resume_skills :
                         \/ req_skill = res_skill
                         \/ IsSubstring(req_skill, res_skill)
                         \/ IsSubstring(res_skill, req_skill)}
             remaining_resume ==
                 resume_skills \ {s \in resume_skills :
                                     \E d \in direct_matches :
                                         IsSubstring(s, d) \/ IsSubstring(d, s)}
             remaining_required == required_skills \ direct_matches
             semantic_matches ==
                 find_semantic_skill_matches(remaining_resume, remaining_required,
                                             in.embeddings_alike)
             all_matches == direct_matches \cup semantic_matches
             total == (Cardinality(direct_matches) * FullScore
                       + Cardinality(semantic_matches) * (FullScore \div 2))
                      \div Cardinality(required_skills)
         IN IF required_skills = {}
            THEN [score |-> 0, matched |-> {}, missing |-> {}, total_required |-> 0]
            ELSE [score |-> Min(total, FullScore),
                  matched |-> all_matches,
                  missing |-> required_skills \ all_matches,
                  total_required |-> Cardinality(required_skills)]

SkillMatch ==
    /\ call_input \in SkillMatchInputs
    /\ ~call_result.returned
    /\ call_result' = [returned |-> TRUE, value |-> calculate_skill_match(call_input)]
    /\ UNCHANGED <<instance_vars, memory_vars, run_vars, job_vars, sim_vars,
                   skill_vars, calc_vars, call_input>>

InitSkillMatch ==
    /\ IdleOptimizer
    /\ IdleJob
    /\ IdleSim
    /\ IdleSkills
    /\ IdleCalc
    /\ call_input \in SkillMatchInputs
    /\ call_result = NoReturn

NextSkillMatch == SkillMatch

SpecSkillMatch == InitSkillMatch /\ [][NextSkillMatch]_vars

(***************************************************************************)
(* Properties.                                                             *)
(***************************************************************************)
Has(record, key) == key \in DOMAIN record

Last(seq) == seq[Len(seq)]

Contains(seq, x) == \E i \in 1..Len(seq) : seq[i] = x

\* the result is that of the early return / of the loop path
IsEarlyResult(r) == Has(r, "strategy_used")
IsLoopResult(r) == Has(r, "iterations_used")

\* the iteration count a result reports
IterationsUsed(r) == IF IsLoopResult(r) THEN r.iterations_used ELSE r.iterations

\* C1: a call whose resume already scores at least target_score returns at
\* once: no iteration is entered, the collaborator is not called, and the
\* result holds the resume unchanged, final_score = original_score, zero
\* iterations, an empty attempt log and strategy_used "none".
C1_EarlyExit ==
    /\ (pc \in {"reason", "act", "final"}) => ScoreOf(resume_text) < target_score
    /\ (pc = "returned" /\ ScoreOf(resume_text) >= target_score) =>
          /\ llm_calls = 0
          /\ IsEarlyResult(result)
          /\ result.strategy_used = "none"
          /\ result.iterations = 0
          /\ result.optimized_resume = resume_text
          /\ result.final_score = ScoreOf(resume_text)
          /\ result.original_score = result.final_score
          /\ result.attempt_history = <<>>

C1_Witness ==
    /\ pc = "returned"
    /\ ScoreOf(resume_text) > target_score
    /\ IsEarlyResult(result)
    /\ result.iterations = 0

\* C2: whatever the collaborator does, the loop body is entered at most
\* max_iterations times (each entry makes at most two collaborator calls),
\* and a returned result reports between 0 and max_iterations iterations.
C2_TerminationBound ==
    /\ iteration \in 0..max_iterations
    /\ llm_calls <= 2 * max_iterations
    /\ (pc \in {"reason", "act", "final"}) => llm_calls <= 2 * iteration
    /\ (pc = "returned") => IterationsUsed(result) \in 0..max_iterations

\* a run that used every iteration, one of them on a failed action
C2_Witness ==
    /\ pc = "returned"
    /\ IsLoopResult(result)
    /\ max_iterations = MaxIter
    /\ result.iterations_used = max_iterations
    /\ Len(result.failed_strategies) > Len(result.attempt_history)

\* C3: when an attempt is logged with delta = new_score - previous_score:
\* if delta > -1 point the current text and score become the rewritten text
\* and new_score, and the strategy is appended to successful_strategies
\* exactly when delta > 0; if delta <= -1 point the strategy is appended to
\* failed_strategies and the current text and score stay as they were.
C3_AcceptReject ==
    [][(pc = "act" /\ Len(attempt_history') = Len(attempt_history) + 1) =>
        LET attempt == Last(attempt_history')
            delta == attempt.new_score - attempt.previous_score
        IN /\ attempt.previous_score = current_score
           /\ attempt.new_score = ScoreOf(improved_resume')
           /\ attempt.strategy = strategy.name
           /\ (delta > -Points(1)) =>
                 /\ current_resume' = improved_resume'
                 /\ current_score' = attempt.new_score
                 /\ failed_strategies' = failed_strategies
                 /\ (delta > 0) =>
                       successful_strategies' =
                           Append(successful_strategies, attempt.strategy)
                 /\ (delta <= 0) => successful_strategies' = successful_strategies
           /\ (delta <= -Points(1)) =>
                 /\ failed_strategies' = Append(failed_strategies, attempt.strategy)
                 /\ successful_strategies' = successful_strategies
                 /\ current_resume' = current_resume
                 /\ current_score' = current_score
      ]_vars

\* a first attempt less than a point worse was kept, a second one a full
\* point worse than that was reverted
C3_Witness ==
    /\ pc \in {"reason", "final"}
    /\ Len(attempt_history) = 2
    /\ attempt_history[1].improvement = -1
    /\ attempt_history[2].previous_score = attempt_history[1].new_score
    /\ attempt_history[2].improvement = -Points(1)
    /\ current_score = attempt_history[1].new_score
    /\ current_resume # resume_text
    /\ Len(failed_strategies) = 1

\* C4: when the action call raises or returns fewer than 100 characters,
\* the strategy is appended to failed_strategies, nothing is rescored or
\* logged, the current text and score are left alone, and the run goes to
\* the next iteration if one is left instead of raising or returning.
C4_FailedAction ==
    [][\A response \in ActResponses :
        (/\ Action(response)
         /\ response.kind = "raises" \/ response.length < 100) =>
            /\ failed_strategies' = Append(failed_strategies, strategy.name)
            /\ successful_strategies' = successful_strategies
            /\ attempt_history' = attempt_history
            /\ score_calls' = score_calls
            /\ current_resume' = current_resume
            /\ current_score' = current_score
            /\ pc' \in {"reason", "final"}
            /\ (iteration < max_iterations) =>
                  (pc' = "reason" /\ iteration' = iteration + 1)
      ]_vars

\* the first iteration's action failed and the second iteration is under way
C4_Witness ==
    /\ pc = "act"
    /\ iteration = 2
    /\ Len(failed_strategies) = 1
    /\ attempt_history = <<>>
    /\ score_calls = 1
    /\ current_resume = resume_text

\* C5: no iteration is under way with current_score >= target_score; a
\* returned target_reached is true exactly when final_score >= target_score;
\* a result with target_reached false reports max_iterations iterations.
C5_TerminationCheck ==
    /\ (pc \in {"reason", "act"}) => current_score < target_score
    /\ (pc = "returned" /\ Has(result, "target_reached")) =>
          /\ result.target_reached <=> (result.final_score >= target_score)
          /\ ~result.target_reached => result.iterations_used = max_iterations

\* a run stopped by reaching the target before its iterations were used up
C5_Witness ==
    /\ pc = "returned"
    /\ Has(result, "target_reached")
    /\ result.target_reached
    /\ result.final_score = target_score
    /\ result.iterations_used < max_iterations

\* the attempts logged by the call that has just returned: one per rescoring
RunAttempts ==
    LET n == Len(attempt_history)
        k == score_calls - 1
    IN SubSeq(attempt_history, n - k + 1, n)

\* every iteration of the returned run produced a text that scored at least
\* one point below the current score
AllRejectedRun ==
    /\ pc = "returned"
    /\ IsLoopResult(result)
    /\ result.iterations_used = score_calls - 1
    /\ \A i \in 1..Len(RunAttempts) :
          RunAttempts[i].new_score <= RunAttempts[i].previous_score - Points(1)

\* C6: a run all of whose iterations were rejected returns the submitted
\* resume, final_score = original_score, iterations_used = max_iterations,
\* every tried strategy in failed_strategies, and an empty
\* successful_strategies.
C6_AllRejectedRun ==
    AllRejectedRun =>
        /\ result.optimized_resume = resume_text
        /\ result.final_score = result.original_score
        /\ result.original_score = ScoreOf(resume_text)
        /\ result.iterations_used = max_iterations
        /\ \A i \in 1..Len(RunAttempts) :
              Contains(result.failed_strategies, RunAttempts[i].strategy)
        /\ result.successful_strategies = <<>>

\* C7: a call on a valid job text never ends in an exception, whatever the
\* collaborator raises or returns, plan fields of any value included.
C7_NeverRaises == (pc = "raised") => AnalyzeJob(job_text).raised

\* C8: when the embedding call raises during enhanced scoring (and nothing
\* else does), the returned result has method "basic_tfidf".
C8_EmbeddingFallback ==
    (/\ Has(sim_result, "call")
     /\ sim_result.call = "calculate_enhanced_similarity"
     /\ sim_input.ai_service
     /\ sim_input.embedding_raises
     /\ ~sim_input.basic_raises) =>
        /\ Has(sim_result.return.value, "method")
        /\ sim_result.return.value.method = "basic_tfidf"

\* C9: a scoring call, basic or through the enhanced analyzer's fallback, on
\* a job text that fails validation ends in an error; it returns no scores.
C9_InvalidJobFails ==
    (/\ Has(sim_result, "call")
     /\ ~validate_is_job_description(sim_input.job).is_valid) =>
        /\ sim_result.return.raised
        /\ sim_result.return.value = NoResult

\* the seven fields of a job profile
ProfileFields ==
    {"required_skills", "experience_level", "job_title", "company",
     "key_responsibilities", "qualifications", "description"}

\* the text is empty or shorter than 100 characters, contains no job
\* indicator, or more than half of its non-blank characters are digits
Unacceptable(text) ==
    \/ text.len < 100
    \/ text.indicators = 0
    \/ (text.chars > 0 /\ 2 * text.digits > text.chars)

\* the text passes every check of validate_is_job_description
PassesEveryCheck(text) ==
    /\ ~Unacceptable(text)
    /\ text.resume_indicators < 6
    /\ text.excludes + (IF text.transcript THEN 1 ELSE 0) < 3

\* C10: analyze_job_description fails with an error, returning no profile,
\* on a text that is empty, shorter than 100 characters, without a job
\* indicator or more than half digits; on a text passing every validation
\* check it returns a profile with exactly the seven fields.
C10_AnalyzeJob ==
    (job_result # NoResult) =>
        /\ Unacceptable(job_input) =>
              /\ job_result.raised
              /\ job_result.error # None
              /\ job_result.analysis = NoProfile
        /\ PassesEveryCheck(job_input) =>
              /\ ~job_result.raised
              /\ DOMAIN job_result.analysis = ProfileFields

\* a long text with a job indicator, refused for its digits alone
C10_Witness ==
    /\ job_result # NoResult
    /\ job_input.len >= 100
    /\ job_input.indicators > 0
    /\ 2 * job_input.digits > job_input.chars
    /\ job_result.raised
    /\ job_result.error = "too_many_numbers"

\* a skill string as the cleaning step leaves it: no surrounding blanks, more
\* than one character
IsCleanSkill(skill) == strip(skill) = skill /\ Len(skill) > 1

\* A is a case-insensitive substring of B, a different string
ContainedIn(A, B) == lower(A) # lower(B) /\ IsSubstring(lower(A), lower(B))

\* C11: for two distinct strings A and B with A a case-insensitive substring
\* of B, deduplicating [A, B] and deduplicating [B, A] both give a list of
\* length 1 holding the shorter string A.
C11_DedupSubstringLaw ==
    (/\ dedup_result.returned
     /\ Len(skills) = 2
     /\ IsCleanSkill(skills[1])
     /\ IsCleanSkill(skills[2])) =>
        /\ ContainedIn(skills[1], skills[2]) => dedup_result.value = <<skills[1]>>
        /\ ContainedIn(skills[2], skills[1]) => dedup_result.value = <<skills[2]>>

\* whitespace tokens shared, over the larger of the two token counts, > 70%
TokenOverlapExceeds(A, B) ==
    LET tokens_A == split(lower(A))
        tokens_B == split(lower(B))
        larger == IF Cardinality(tokens_A) >= Cardinality(tokens_B)
                  THEN Cardinality(tokens_A) ELSE Cardinality(tokens_B)
    IN 10 * Cardinality(tokens_A \cap tokens_B) > 7 * larger

\* C12: the output of _deduplicate_skills holds no two distinct members one
\* of which is a case-insensitive substring of the other, and no two members
\* whose whitespace-token overlap exceeds 70%.
C12_DedupOutputInvariant ==
    dedup_result.returned =>
        \A i, j \in 1..Len(dedup_result.value) :
            (i # j) =>
                /\ ~ContainedIn(dedup_result.value[i], dedup_result.value[j])
                /\ ~TokenOverlapExceeds(dedup_result.value[i], dedup_result.value[j])

\* the CI/CD family, in lower case
CiCdFamily ==
    {<<"c", "i", "/", "c", "d">>, <<"c", "i", "-", "c", "d">>,
     <<"c", "i", "c", "d">>,
     <<"c", "o", "n", "t", "i", "n", "u", "o", "u", "s", " ",
       "i", "n", "t", "e", "g", "r", "a", "t", "i", "o", "n">>,
     <<"c", "o", "n", "t", "i", "n", "u", "o", "u", "s", " ",
       "d", "e", "p", "l", "o", "y", "m", "e", "n", "t">>,
     <<"c", "o", "n", "t", "i", "n", "u", "o", "u", "s", " ",
       "d", "e", "l", "i", "v", "e", "r", "y">>}

AgileMembers(list) ==
    { i \in 1..Len(list) : IsSubstring(<<"a", "g", "i", "l", "e">>, lower(list[i])) }

CiCdMembers(list) == { i \in 1..Len(list) : lower(list[i]) \in CiCdFamily }

SynonymExample == <<Agile, AgileMethodology, CiCd, ContinuousIntegration>>

\* C13: the output of _deduplicate_skills holds at most one term containing
\* "agile" and at most one CI/CD-family variant; the input [Agile, Agile
\* Methodology, CI/CD, Continuous Integration] gives a list of length 2 with
\* one term of each family.
C13_SynonymFamilies ==
    dedup_result.returned =>
        /\ Cardinality(AgileMembers(dedup_result.value)) <= 1
        /\ Cardinality(CiCdMembers(dedup_result.value)) <= 1
        /\ (skills = SynonymExample) =>
              /\ Len(dedup_result.value) = 2
              /\ Cardinality(AgileMembers(dedup_result.value)) = 1
              /\ Cardinality(CiCdMembers(dedup_result.value)) = 1

C13_Witness ==
    /\ dedup_result.returned
    /\ skills = SynonymExample
    /\ Len(dedup_result.value) = 2

\* C14: on one SimilarityCalculator instance, any two calls for the same
\* (resume_text, job_text) pair return the same scores, whatever pairs were
\* scored in between: each call refits the vocabulary from its own pair.
C14_Determinism ==
    /\ \A i, j \in 1..Len(score_log) :
          (/\ score_log[i].resume_text = score_log[j].resume_text
           /\ score_log[i].job_text = score_log[j].job_text) =>
              score_log[i].scores = score_log[j].scores
    /\ (score_log # <<>>) =>
          vocabulary = fit(<<Last(score_log).resume_text, Last(score_log).job_text>>)

\* a pair scored, another pair with another vocabulary scored, the first
\* pair scored again
C14_Witness ==
    /\ Len(score_log) = 3
    /\ score_log[1].resume_text = score_log[3].resume_text
    /\ score_log[1].job_text = score_log[3].job_text
    /\ fit(<<score_log[2].resume_text, score_log[2].job_text>>)
           # fit(<<score_log[1].resume_text, score_log[1].job_text>>)
    /\ score_log[1].scores.overall_score > 0
    /\ score_log[3].scores = score_log[1].scores

\* C15: every call to optimize_resume starts its first iteration with an
\* empty attempt log and empty successful and failed collections, and the
\* log and collections of its result hold only what the call produced: one
\* log entry per rescoring, at most one collection entry per iteration.
C15_PerRunState ==
    /\ (pc = "reason" /\ iteration = 1) =>
          /\ attempt_history = <<>>
          /\ successful_strategies = <<>>
          /\ failed_strategies = <<>>
    /\ (pc = "returned" /\ IsLoopResult(result)) =>
          /\ Len(result.attempt_history) = score_calls - 1
          /\ Len(result.successful_strategies) + Len(result.failed_strategies)
                <= result.iterations_used

\* the fields every result carries, and the two names of its summary
ResultFields ==
    {"optimized_resume", "final_score", "original_score", "iterations_used",
     "target_reached", "attempt_history", "successful_strategies",
     "failed_strategies"}

SummaryFields == {"final_reflection", "reflection"}

\* C16: every result optimize_resume returns, early exit or loop path,
\* carries optimized text, final_score, original_score, iterations_used,
\* target_reached, attempt log, successful and failed strategies, and a
\* summary.
C16_ResultShape ==
    (pc = "returned") =>
        /\ ResultFields \subseteq DOMAIN result
        /\ SummaryFields \cap DOMAIN result # {}

\* C17: every strategy in failed_strategies of a final result has an entry
\* in the result's attempt log whose reflection tells of the failure, be it
\* a failure of the action step or a rejection after rescoring.
C17_FailureExplained ==
    (pc = "returned" /\ IsLoopResult(result)) =>
        \A i \in 1..Len(result.failed_strategies) :
            \E k \in 1..Len(result.attempt_history) :
                /\ result.attempt_history[k].strategy = result.failed_strategies[i]
                /\ ~result.attempt_history[k].reflection.success

\* C18: every strategy name the reasoning step chooses, and every name in
\* the attempt log and in the successful and failed collections, is one of
\* the five listed strategies.
C18_ClosedStrategySet ==
    /\ (pc = "act") => strategy.name \in StrategyNames
    /\ \A k \in 1..Len(attempt_history) : attempt_history[k].strategy \in StrategyNames
    /\ \A k \in 1..Len(successful_strategies) :
          successful_strategies[k] \in StrategyNames
    /\ \A k \in 1..Len(failed_strategies) : failed_strategies[k] \in StrategyNames

\* C19: the overall_score calculate_similarity returns is the weighted sum
\* 0.30 lexical + 0.35 skill + 0.25 experience + 0.10 education of its
\* component scores (whatever education score between 0 and 100 is taken
\* for the component the basic result does not carry).
C19_BasicWeightedSum ==
    (/\ Has(sim_result, "call")
     /\ sim_result.call = "calculate_similarity"
     /\ ~sim_result.return.raised) =>
        LET scores == sim_result.return.value
            rest == 100 * scores.overall_score
                    - (30 * sim_input.lexical
                       + 35 * scores.skill_match_score
                       + 25 * scores.experience_match_score)
        IN rest >= 0 /\ rest <= 10 * FullScore

\* C20: when the reasoning call raises or its output is no plan, the
\* strategy chosen is keyword_optimization in iteration 1, and later
\* professional_summary if keyword_optimization is in successful_strategies
\* and skills_emphasis otherwise.
C20_FallbackSelection ==
    [][\A response \in FailedReasonResponses :
        (Reasoning(response) /\ pc' = "act") =>
            strategy'.name =
                IF iteration = 1 THEN "keyword_optimization"
                ELSE IF Contains(successful_strategies, "keyword_optimization")
                     THEN "professional_summary"
                     ELSE "skills_emphasis"
      ]_vars

\* a second iteration whose reasoning call failed after keyword_optimization
\* had succeeded in the first
C20_Witness ==
    /\ pc = "act"
    /\ iteration = 2
    /\ strategy.name = "professional_summary"
    /\ successful_strategies = <<"keyword_optimization">>

\* C21: within one run, a strategy already recorded in failed_strategies is
\* not selected again by a later iteration's reasoning step.
C21_NoFailedStrategyAgain ==
    [][(pc = "reason" /\ pc' = "act") =>
          ~Contains(failed_strategies, strategy'.name)]_vars

\* the iteration numbers of a log are strictly increasing and lie in 1..used
OrderedLog(log, used) ==
    /\ Len(log) <= used
    /\ \A i \in 1..Len(log) : log[i].iteration \in 1..used
    /\ \A i, j \in 1..Len(log) : i < j => log[i].iteration < log[j].iteration

\* C22: within one run the attempt log only grows by appending at the end,
\* no entry is removed or changed, the iteration numbers of its entries are
\* strictly increasing and lie in 1..iterations_used, and its length is at
\* most iterations_used.
C22_AttemptLogOrdering ==
    /\ [][/\ Len(attempt_history') >= Len(attempt_history)
          /\ Len(attempt_history') <= Len(attempt_history) + 1
          /\ SubSeq(attempt_history', 1, Len(attempt_history)) = attempt_history
         ]_vars
    /\ []((pc \in {"reason", "act", "final"}) =>
              OrderedLog(attempt_history, iteration))
    /\ []((pc = "returned" /\ IsLoopResult(result)) =>
              OrderedLog(result.attempt_history, result.iterations_used))

\* the accepted attempts of a log: those not more than a point worse
AcceptedAttempts(log) ==
    {i \in 1..Len(log) : log[i].improvement > -Points(1)}

\* the pair is the submitted one, or the score is that of the most recent
\* accepted attempt and the text is a rewritten one with that score
ChainedPair(text, score, log) ==
    /\ score = ScoreOf(text)
    /\ IF AcceptedAttempts(log) = {}
       THEN text = resume_text /\ score = ScoreOf(resume_text)
       ELSE LET latest == CHOOSE i \in AcceptedAttempts(log) :
                              \A j \in AcceptedAttempts(log) : j <= i
            IN /\ score = log[latest].new_score
               /\ text \in RewrittenTexts

\* C23: at every point of a run (current_text, current_score) is the
\* submitted text with original_score or the rewritten text and new_score of
\* the most recent accepted attempt; each iteration's previous_score is the
\* score of that pair, an accepted attempt's text becomes the current text,
\* and the returned final_score is the score computed for the returned text.
C23_Chaining ==
    /\ []((pc \in {"reason", "act", "final"}) =>
              /\ original_score = ScoreOf(resume_text)
              /\ ChainedPair(current_resume, current_score, attempt_history))
    /\ [][(pc = "act" /\ Len(attempt_history') = Len(attempt_history) + 1) =>
              LET attempt == Last(attempt_history') IN
              /\ attempt.previous_score = current_score
              /\ attempt.previous_score = ScoreOf(current_resume)
              /\ IF attempt.improvement > -Points(1)
                 THEN /\ current_resume' = improved_resume'
                      /\ current_score' = attempt.new_score
                 ELSE UNCHANGED <<current_resume, current_score>>
         ]_vars
    /\ []((pc = "returned" /\ IsLoopResult(result)) =>
              /\ result.original_score = ScoreOf(resume_text)
              /\ ChainedPair(result.optimized_resume, result.final_score,
                             result.attempt_history))

\* a returned run whose first attempt was accepted and whose second was
\* rejected: the result is the first attempt's text and score
C23_Witness ==
    /\ pc = "returned"
    /\ IsLoopResult(result)
    /\ Len(result.attempt_history) = 2
    /\ result.attempt_history[1].improvement > 0
    /\ result.attempt_history[2].improvement <= -Points(1)
    /\ result.final_score = result.attempt_history[1].new_score
    /\ result.optimized_resume # resume_text

\* every iteration leaves current_score greater than its value before the
\* iteration minus one point
IterationRegression ==
    [][(pc = "act") =>
          (pc' = "raised" \/ current_score' > current_score - Points(1))]_vars

\* C29: every iteration leaves current_score greater than its value before
\* the iteration minus one point, so the returned final_score is greater
\* than original_score minus the number of logged attempts, which is at
\* least original_score minus max_iterations.
C29_BoundedRegression ==
    /\ IterationRegression
    /\ []((pc = "returned" /\ IsLoopResult(result)) =>
              /\ result.final_score >
                     result.original_score - Points(Len(result.attempt_history))
              /\ result.original_score - Points(Len(result.attempt_history))
                     >= result.original_score - Points(result.max_iterations))

\* C29 as it holds: the bound is strict only for a run that logged an
\* attempt; a run that logged none returns final_score = original_score.
C29_BoundedRegressionAmended ==
    /\ IterationRegression
    /\ []((pc \in {"reason", "act", "final"}) =>
              /\ current_score >= original_score - Points(Len(attempt_history))
              /\ (attempt_history # <<>>) =>
                     current_score > original_score - Points(Len(attempt_history)))
    /\ []((pc = "returned" /\ IsLoopResult(result)) =>
              LET logged == Len(result.attempt_history) IN
              /\ logged = 0 => result.final_score = result.original_score
              /\ logged > 0 =>
                     result.final_score > result.original_score - Points(logged)
              /\ result.original_score - Points(logged)
                     >= result.original_score - Points(result.max_iterations))

\* a returned run that kept two attempts, each a little worse than the text
\* before it, so that the final score lies below the original score
C29_Witness ==
    /\ pc = "returned"
    /\ IsLoopResult(result)
    /\ Len(result.attempt_history) = 2
    /\ \A i \in 1..2 : result.attempt_history[i].improvement = -1
    /\ result.final_score = result.original_score - 2

\* C28: for every delta and every expected improvement the strategy
\* declares, the attempt is classified met-or-exceeded when delta >=
\* expected, partial success when 0 < delta < expected, negligible when
\* -2 < delta <= 0 and backfire when delta <= -2, and an attempt with
\* delta <= -2 is never reported as a success.
C28_ReflectionBuckets ==
    (call_result.returned /\ call_input \in ReflectInputs) =>
        LET delta == call_input.actual_improvement
            expected == call_input.strategy.expected_improvement.value
            reflection == call_result.value
        IN /\ delta >= expected =>
                 reflection.assessment = "exceeded_expectations"
           /\ (0 < delta /\ delta < expected) =>
                 reflection.assessment = "partial_success"
           /\ (-Points(2) < delta /\ delta <= 0) =>
                 reflection.assessment = "minimal_impact"
           /\ delta <= -Points(2) =>
                 /\ reflection.assessment = "backfired"
                 /\ ~reflection.success

\* C24: two items, neither a substring of the other, whose shared whitespace
\* tokens divided by the larger of the two token counts exceed 0.7, are
\* collapsed by _deduplicate_skills to a single item, the shorter string.
C24_TokenOverlapRule ==
    (/\ dedup_result.returned
     /\ Len(skills) = 2
     /\ IsCleanSkill(skills[1])
     /\ IsCleanSkill(skills[2])
     /\ ~IsSubstring(lower(skills[1]), lower(skills[2]))
     /\ ~IsSubstring(lower(skills[2]), lower(skills[1]))
     /\ TokenOverlapExceeds(skills[1], skills[2])) =>
        /\ Len(dedup_result.value) = 1
        /\ dedup_result.value[1] \in {skills[1], skills[2]}
        /\ Len(dedup_result.value[1]) <= Len(skills[1])
        /\ Len(dedup_result.value[1]) <= Len(skills[2])

\* C25: calculate_skill_similarity returns 0.7 * (percentage of the
\* deduplicated, case-folded required skills found in the resume skill set)
\* + 0.3 * (Jaccard percentage of the two sets), within [0, 100], and 0
\* whenever the set of required skills is empty.  The returned value is in
\* hundredths, cut off twice on the way: it lies within two hundredths below
\* the exact weighted sum.
C25_BasicSkillScore ==
    (/\ call_result.returned
     /\ call_input \in SkillScoreInputs
     /\ ~call_input.extraction_raises) =>
        LET required == LowerSet(deduplicate_skills(call_input.job_skills))
            resume == LowerSet(deduplicate_skills(call_input.resume_skills))
            found == Cardinality({s \in required : s \in resume})
            J == Cardinality(required)
            U == Cardinality(required \cup resume)
            returned == call_result.value
        IN /\ returned >= 0
           /\ returned <= FullScore
           /\ required = {} => returned = 0
           /\ required # {} =>
                 \* found/J * 70 + found/U * 30, over the denominator 100 * J * U
                 LET exact == found * FullScore * (70 * U + 30 * J) IN
                 /\ returned * 100 * J * U <= exact
                 /\ exact < (returned + 2) * 100 * J * U

\* a resume that spells one of two required skills in lower case and has a
\* skill the job does not ask for: half the required skills, a third Jaccard
C25_Witness ==
    /\ call_result.returned
    /\ call_input \in SkillScoreInputs
    /\ ~call_input.extraction_raises
    /\ call_input.job_skills = <<Java, CiCd>>
    /\ call_input.resume_skills = <<Agile, lower_of(Java)>>
    /\ call_result.value \in 4499..4500

\* the ranges whose level name the job's level text contains
RangesFound(level_text) ==
    {k \in 1..Len(experience_ranges) :
        substring_of(experience_ranges[k].level, lower_of(level_text))}

\* the years bracket of a job level: that of the first range found
BracketOf(level_text) ==
    experience_ranges[CHOOSE k \in RangesFound(level_text) :
                          \A j \in RangesFound(level_text) : k <= j]

\* C26: for a job level with years bracket [min, max] (Senior = 5 to 10) the
\* experience score is 100 when the candidate's total years lie in the
\* bracket, 90 when above max, and below min it decreases linearly with the
\* shortfall (ten points a year, from 50) and never goes below 0; a job with
\* no recognised level scores 100; the score is always in [0, 100].
C26_ExperienceScore ==
    (call_result.returned /\ call_input \in ExperienceInputs) =>
        LET score == call_result.value.score
            years == call_input.total_years
            level == call_input.experience_level
        IN /\ score >= 0
           /\ score <= FullScore
           /\ ~call_input.malformed =>
                 /\ level = SeniorLevel =>
                       /\ RangesFound(level) # {}
                       /\ BracketOf(level).min_years = 50
                       /\ BracketOf(level).max_years = 100
                 /\ RangesFound(level) = {} => score = FullScore
                 /\ RangesFound(level) # {} =>
                       LET min == BracketOf(level).min_years
                           max == BracketOf(level).max_years
                       IN /\ (min <= years /\ years <= max) => score = FullScore
                          /\ years > max => score = 9000
                          /\ years < min =>
                                /\ score < FullScore
                                /\ score = IF 5000 - 100 * (min - years) > 0
                                           THEN 5000 - 100 * (min - years)
                                           ELSE 0

\* a candidate with three years against a Senior job: two years short
C26_Witness ==
    /\ call_result.returned
    /\ call_input \in ExperienceInputs
    /\ ~call_input.malformed
    /\ call_input.experience_level = SeniorLevel
    /\ call_input.total_years = 30
    /\ call_result.value.score = 3000
    /\ call_result.value.match_status = "underqualified"

\* the place of a detected degree on the scale diploma < bachelor < master <
\* doctorate; 0 for a text that names none of the four
ScaleLevel(text) ==
    LET level == LevelIn(text) IN
    IF level = 5 THEN 4
    ELSE IF level = 4 THEN 3
    ELSE IF level = 3 THEN 2
    ELSE IF level = 1 THEN 1
    ELSE 0

\* the candidate's highest place on that scale
HighestScaleLevel(education) ==
    LET levels == {ScaleLevel(education[i]) : i \in 1..Len(education)} \cup {0}
    IN CHOOSE l \in levels : \A o \in levels : o <= l

\* C27: with degree levels ordered diploma < bachelor < master < doctorate,
\* a candidate whose highest level meets or exceeds the level detected in
\* the job text scores 100, a candidate exactly one level short scores 75,
\* more than one level short scores 50, and a job text with no degree
\* keyword scores 100.
C27_EducationScore ==
    (/\ call_result.returned
     /\ call_input \in EducationInputs
     /\ ~call_input.malformed) =>
        LET required == ScaleLevel(call_input.description)
            candidate == HighestScaleLevel(call_input.education)
            score == call_result.value.score
        IN /\ required = 0 => score = FullScore
           /\ (required > 0 /\ candidate >= required) => score = FullScore
           /\ (candidate > 0 /\ candidate = required - 1) => score = 7500
           /\ (candidate > 0 /\ candidate < required - 1) => score = 5000

\* C30: every entry of the resume's skill list takes part in matching: a
\* required skill that equals, case-insensitively, any resume skill of the
\* list is in matched and not in missing; matched and missing together are
\* exactly the deduplicated required skills; and a required-skill list with
\* an entry that is kept is never reported with total_required = 0.
C30_EnhancedSkillMatch ==
    (call_result.returned /\ call_input \in SkillMatchInputs) =>
        LET resume_list == call_input.skills
            required_list == normalize_required(call_input.required_skills, 1, <<>>)
            required == {required_list[i] : i \in 1..Len(required_list)}
            resume == {lower(strip(resume_list[i])) :
                          i \in {i \in 1..Len(resume_list) :
                                    ~SkippedSkill(resume_list[i])}}
            match == call_result.value
        IN /\ \A skill \in required :
                 skill \in resume =>
                     (skill \in match.matched /\ skill \notin match.missing)
           /\ match.matched \cup match.missing = required
           /\ match.matched \cap match.missing = {}
           /\ required # {} => match.total_required # 0

====
